---- MODULE Spec2Model ----
(***************************************************************************)
(* State-machine model of the OV9281 sensor driver                         *)
(* (drivers/media/i2c/ov9281.c): register transport, power sequencer,      *)
(* control translator, s_power / s_stream state machine, together with the *)
(* parts of the runtime-PM core and of the V4L2 control framework that the *)
(* driver calls.                                                           *)
(***************************************************************************)
EXTENDS Integers, Sequences, FiniteSets, TLC

\* ------------------------------------------------------------------ bounds
\* number of driver calls issued in one behaviour
MaxCalls == 3

\* calls issued by the single caller of SpecSerial
MaxSerialCalls == 4

\* register entries before the terminator in the tables of SpecArray
MaxTable == 2

\* ------------------------------------------------------- program constants
OV9281_XVCLK_FREQ == 24000000
CHIP_ID == 37505                     \* 0x9281
OV9281_REG_CHIP_ID == 12298          \* 0x300a
OV9281_REG_CTRL_MODE == 256          \* 0x0100
OV9281_MODE_SW_STANDBY == 0
OV9281_MODE_STREAMING == 1
OV9281_REG_EXPOSURE == 13568         \* 0x3500
OV9281_EXPOSURE_MIN == 4
OV9281_EXPOSURE_STEP == 1
OV9281_VTS_MAX == 32767              \* 0x7fff
OV9281_REG_GAIN_H == 13576           \* 0x3508
OV9281_REG_GAIN_L == 13577           \* 0x3509
OV9281_GAIN_H_MASK == 7
OV9281_GAIN_H_SHIFT == 8
OV9281_GAIN_L_MASK == 255
OV9281_GAIN_MIN == 16
OV9281_GAIN_MAX == 248
OV9281_GAIN_STEP == 1
OV9281_GAIN_DEFAULT == 16
OV9281_REG_TEST_PATTERN == 24064     \* 0x5e00
OV9281_TEST_PATTERN_ENABLE == 128
OV9281_TEST_PATTERN_DISABLE == 0
OV9281_REG_VTS == 14350              \* 0x380e
REG_NULL == 65535                    \* 0xFFFF
OV9281_REG_VALUE_08BIT == 1
OV9281_REG_VALUE_16BIT == 2
OV9281_REG_VALUE_24BIT == 3
OV9281_NATIVE_WIDTH == 1280
OV9281_NATIVE_HEIGHT == 800
OV9281_PIXEL_ARRAY_LEFT == 0
OV9281_PIXEL_ARRAY_TOP == 0
OV9281_PIXEL_ARRAY_WIDTH == 1280
OV9281_PIXEL_ARRAY_HEIGHT == 800

\* errno values returned by the driver and by the frameworks it calls
EIO == 5
ENOMEM == 12
ENODEV == 19
EINVAL == 22
ERANGE == 34

\* struct regval ov9281_1280x800_regs[]: <<addr, val>>, REG_NULL terminated
ov9281_1280x800_regs == <<
    <<259, 1>>, <<770, 50>>, <<781, 80>>, <<782, 2>>, <<12289, 0>>, <<12292, 0>>,
    <<12293, 0>>, <<12294, 4>>, <<12305, 10>>, <<12307, 24>>, <<12322, 1>>, <<12323, 0>>,
    <<12332, 0>>, <<12335, 0>>, <<12336, 4>>, <<12345, 50>>, <<12346, 0>>, <<12351, 1>>,
    <<13568, 0>>, <<13569, 42>>, <<13570, 144>>, <<13571, 8>>, <<13573, 140>>, <<13575, 3>>,
    <<13576, 0>>, <<13577, 16>>, <<13840, 128>>, <<13841, 160>>, <<13856, 111>>, <<13874, 86>>,
    <<13875, 120>>, <<13922, 5>>, <<13926, 0>>, <<13935, 90>>, <<13952, 132>>, <<14098, 128>>,
    <<14125, 34>>, <<14129, 128>>, <<14130, 48>>, <<14200, 0>>, <<14205, 34>>, <<14216, 2>>,
    <<14217, 164>>, <<14218, 0>>, <<14219, 74>>, <<14233, 32>>, <<14336, 0>>, <<14337, 0>>,
    <<14338, 0>>, <<14339, 0>>, <<14340, 5>>, <<14341, 15>>, <<14342, 3>>, <<14343, 47>>,
    <<14344, 5>>, <<14345, 0>>, <<14346, 3>>, <<14347, 32>>, <<14348, 2>>, <<14349, 216>>,
    <<14350, 3>>, <<14351, 142>>, <<14352, 0>>, <<14353, 8>>, <<14354, 0>>, <<14355, 8>>,
    <<14356, 17>>, <<14357, 17>>, <<14368, 64>>, <<14369, 0>>, <<14465, 66>>, <<14513, 0>>,
    <<14624, 255>>, <<16387, 64>>, <<16392, 4>>, <<16393, 11>>, <<16396, 0>>, <<16397, 7>>,
    <<16400, 64>>, <<16451, 64>>, <<17159, 48>>, <<17175, 0>>, <<17665, 0>>, <<17671, 0>>,
    <<17673, 0>>, <<17674, 8>>, <<17921, 4>>, <<18191, 0>>, <<20231, 0>>, <<18432, 0>>,
    <<20480, 159>>, <<20481, 0>>, <<24064, 0>>, <<23808, 7>>, <<23809, 0>>, <<65535, 0>>
>>

\* struct ov9281_mode supported_modes[]
supported_modes == <<
    [width |-> 1280, height |-> 800, exp_def |-> 800, hts_def |-> 1456,
     vts_def |-> 910,
     crop |-> [left |-> 0, top |-> 0, width |-> 1280, height |-> 800],
     reg_list |-> ov9281_1280x800_regs] >>

\* ----------------------------------------------------- bit-level helpers
\* x & (2^k - 1) patterns used by the driver, on non-negative integers
Pow2(k) == 2 ^ k
ShiftL(x, k) == x * Pow2(k)
ShiftR(x, k) == x \div Pow2(k)
\* x & m where m = 2^k - 1 (a low-bits mask)
AndMask(x, m) == x % (m + 1)
\* x | b where b is a single bit
OrBit(x, b) == IF (x \div b) % 2 = 1 THEN x ELSE x + b
\* the low len bytes of a u32 (the values handled here are below 2^31)
LowBytes(x, len) == IF len >= 4 THEN x ELSE x % Pow2(8 * len)

Min(a, b) == IF a < b THEN a ELSE b
Max(a, b) == IF a > b THEN a ELSE b

\* ------------------------------------------------------------------ state
\* caller threads (user-context system calls entering the subdevice)
Threads == {1, 2}
\* control identifiers handled by the control handler, in creation order
CtrlOrder == <<"HBLANK", "VBLANK", "EXPOSURE", "ANALOGUE_GAIN", "TEST_PATTERN">>
CtrlIds == {CtrlOrder[i] : i \in 1..Len(CtrlOrder)}
\* sensor register bytes whose last written value is tracked
TrackedRegs == {256, 13568, 13569, 13570, 13576, 13577, 14350, 14351, 24064}

VARIABLES
    mutex,      \* struct ov9281.mutex: 0 = free, else the owning thread
    streaming,  \* struct ov9281.streaming
    power_on,   \* struct ov9281.power_on
    cur_mode,   \* struct ov9281.cur_mode, an index into supported_modes
    ctl,        \* control handler: per control [cur, min, max, def]
    try_fmt,    \* the file handle's try format
    pm,         \* runtime-PM core state of the i2c device
    hw,         \* clock, regulators and GPIO lines of the sensor
    regs,       \* sensor register bytes (-1: power-on value, never written)
    pc,         \* per thread: position in the call it is executing
    op,         \* per thread: the call, its arguments, the state it found
    tr,         \* per thread: what the call did: power events <<"p", step>>,
                \* s_ctrl invocations <<"c", id, val>> and I2C writes
                \* <<"w", reg, len, value, completed>>
    rv,         \* per thread: return value of the call / of the last step
    refs,       \* per thread: PM references taken minus dropped by the call
    calls,      \* number of calls issued so far
    faults,     \* the bus failures the environment may produce
    limit,      \* the callers: how many threads, how many calls in all
    absorbed,   \* history: the controls whose latest write found the
                \* device suspended and has not been replayed since
    sync,       \* per thread, history of the call: "lock" and "unlock" of
                \* the mutex and the handle fields read or written, in order
    out,        \* per thread: the structure the call hands back
    bus,        \* per thread, history of the call: I2C transactions issued,
                \* how many of them with the sensor not powered, how many
                \* with a runtime-PM usage count of 0
    misuse,     \* history: the clock, regulator and power-sequence calls that
                \* found their object already in the state they ask for
    dev         \* what ov9281_probe has set up: mutex, control handler,
                \* media entity, registration, runtime PM

vars == <<mutex, streaming, power_on, cur_mode, ctl, try_fmt, pm, hw, regs,
          pc, op, tr, rv, refs, calls, faults, limit, absorbed, sync, out,
          bus, misuse, dev>>

\* which writes of a locked section the I2C bus fails (by position)
FaultPlans == {{}, {1}, {2}, {19}}

SerialFaultPlans == {{}, {1}}

ArrayFaultPlans == {{}, {1}, {2}, {3}, {1, 3}}
\* outcome of one power-on: all steps succeed, the clock rate cannot be set
\* to 24 MHz, the clock enable fails, the regulator enable fails
PowerFaults == {"none", "rate", "clk", "reg"}

\* ------------------------------------------------- register transport
\* sensor is electrically up: clock, supplies, reset released, pwdn high
Powered(h) == h.clk /\ h.reg /\ h.reset = 1 /\ h.pwdn = 1

Ev(w, e) == [w EXCEPT !.tr = Append(@, e)]

NoBus == [io |-> 0, cold |-> 0, noref |-> 0]

\* an I2C transaction leaves the driver: the state of the sensor's supplies
\* and of the usage count at that moment
Transact(w) ==
    [io |-> w.bus.io + 1,
     cold |-> w.bus.cold + (IF Powered(w.hw) THEN 0 ELSE 1),
     noref |-> w.bus.noref + (IF w.pm.usage > 0 THEN 0 ELSE 1)]

\* ov9281_write_reg: address, then the low len bytes of val, big-endian;
\* -EIO when the transfer is not completed
ov9281_write_reg(w, reg, len, val) ==
    IF len > 4 THEN [w EXCEPT !.ret = -EINVAL]
    ELSE LET k == w.n + 1
             v == LowBytes(val, len)
             ok == Powered(w.hw) /\ k \notin w.flt
             byte(a) == (v \div Pow2(8 * (len - 1 - (a - reg)))) % 256
         IN [w EXCEPT !.n = k,
                      !.bus = Transact(w),
                      !.tr = Append(@, <<"w", reg, len, v, ok>>),
                      !.regs = IF ok
                               THEN [a \in DOMAIN @ |->
                                       IF a >= reg /\ a < reg + len
                                       THEN byte(a) ELSE @[a]]
                               ELSE @,
                      !.ret = IF ok THEN 0 ELSE -EIO]

RECURSIVE write_array_from(_, _, _)
write_array_from(w, list, i) ==
    IF w.ret # 0 \/ list[i][1] = REG_NULL THEN w
    ELSE write_array_from(
             ov9281_write_reg(w, list[i][1], OV9281_REG_VALUE_08BIT, list[i][2]),
             list, i + 1)

RECURSIVE write_all_from(_, _, _, _)
write_all_from(w, list, i, ret) ==
    IF list[i][1] = REG_NULL THEN [w EXCEPT !.ret = ret]
    ELSE LET w1 == ov9281_write_reg(w, list[i][1], OV9281_REG_VALUE_08BIT,
                                    list[i][2])
         IN write_all_from(w1, list, i + 1, IF ret # 0 THEN ret ELSE w1.ret)

\* ov9281_write_array that goes on after a failed write
ov9281_write_array_keep_going(w, list) == write_all_from(w, list, 1, 0)

\* ov9281_write_array: 8-bit writes in table order, stop at the first failure
ov9281_write_array(w, list) == write_array_from([w EXCEPT !.ret = 0], list, 1)

\* the identification registers of the part on the bus: 0x300a MSB, 0x300b
ChipIdRegs(id) ==
    (OV9281_REG_CHIP_ID :> (id \div 256)) @@ (OV9281_REG_CHIP_ID + 1 :> (id % 256))

\* ov9281_read_reg: the value read is in w.val; -EIO when the transfer is
\* not completed, and then the caller's variable is left as it was
ov9281_read_reg(w, reg, len) ==
    IF len > 4 \/ len = 0 THEN [w EXCEPT !.ret = -EINVAL]
    ELSE LET k == w.nr + 1
             ok == Powered(w.hw) /\ k \notin w.rflt
             v == IF ok THEN w.mem[reg] ELSE 0
         IN [w EXCEPT !.nr = k,
                      !.bus = Transact(w),
                      !.tr = Append(@, <<"r", reg, len, v, ok>>),
                      !.val = IF ok THEN v ELSE @,
                      !.ret = IF ok THEN 0 ELSE -EIO]

\* --------------------------------------------------------- power sequencer
RegsReset == [a \in TrackedRegs |-> -1]

\* ov9281_cal_delay: DIV_ROUND_UP(cycles, OV9281_XVCLK_FREQ / 1000 / 1000)
ov9281_cal_delay(cycles) ==
    LET d == (OV9281_XVCLK_FREQ \div 1000) \div 1000
    IN (cycles + d - 1) \div d

\* the driver's calls into the clock and regulator frameworks; a call that
\* enables what is enabled or disables what is disabled is noted
clk_prepare_enable(w) ==
    [w EXCEPT !.hw.clk = TRUE,
              !.misuse = IF w.hw.clk THEN @ \cup {"clk_enable"} ELSE @]

clk_disable_unprepare(w) ==
    [w EXCEPT !.hw.clk = FALSE,
              !.misuse = IF w.hw.clk THEN @ ELSE @ \cup {"clk_disable"}]

regulator_bulk_enable(w) ==
    [w EXCEPT !.hw.reg = TRUE,
              !.misuse = IF w.hw.reg THEN @ \cup {"regulator_enable"} ELSE @]

regulator_bulk_disable(w) ==
    [w EXCEPT !.hw.reg = FALSE,
              !.misuse = IF w.hw.reg THEN @ ELSE @ \cup {"regulator_disable"}]

\* a power-on sequence starts on a sensor that is on, a power-off sequence
\* on one that is off
SequenceStarts(w, on) ==
    [w EXCEPT !.misuse = IF Powered(w.hw) = on
                         THEN @ \cup {IF on THEN "power_on" ELSE "power_off"}
                         ELSE @]

\* __ov9281_power_on that leaves the clock running when the regulators fail
__ov9281_power_on_no_rollback(w) ==
    LET w0 == Ev(SequenceStarts(w, TRUE), <<"p", "clk_set_rate">>)
        w1 == IF w.pwr = "rate" THEN Ev(w0, <<"k", "xvclk rate">>) ELSE w0
        delay_us == ov9281_cal_delay(8192)
    IN IF w.pwr = "clk" THEN [w1 EXCEPT !.ret = -EIO]
       ELSE LET w2 == Ev(Ev([clk_prepare_enable(w1) EXCEPT !.hw.reset = 0],
                            <<"p", "clk_enable">>), <<"p", "reset_low">>)
            IN IF w.pwr = "reg"
               THEN [w2 EXCEPT !.ret = -EIO]
               ELSE [[regulator_bulk_enable(w2) EXCEPT !.hw.reset = 1,
                                !.hw.pwdn = 1, !.ret = 0]
                        EXCEPT !.tr = @ \o << <<"p", "reg_enable">>,
                                              <<"p", "reset_high">>,
                                              <<"p", "usleep_range", 500,
                                                1000>>,
                                              <<"p", "pwdn_high">>,
                                              <<"p", "usleep_range", delay_us,
                                                delay_us * 2>> >>]

\* __ov9281_power_on that returns without the wait before the first SCCB
\* transaction
__ov9281_power_on_no_wait(w) ==
    LET w0 == Ev(SequenceStarts(w, TRUE), <<"p", "clk_set_rate">>)
        w1 == IF w.pwr = "rate" THEN Ev(w0, <<"k", "xvclk rate">>) ELSE w0
    IN IF w.pwr = "clk" THEN [w1 EXCEPT !.ret = -EIO]
       ELSE LET w2 == Ev(Ev([clk_prepare_enable(w1) EXCEPT !.hw.reset = 0],
                            <<"p", "clk_enable">>), <<"p", "reset_low">>)
            IN IF w.pwr = "reg"
               THEN [Ev(clk_disable_unprepare(w2), <<"p", "clk_disable">>)
                        EXCEPT !.ret = -EIO]
               ELSE [[regulator_bulk_enable(w2) EXCEPT !.hw.reset = 1,
                                !.hw.pwdn = 1, !.ret = 0]
                        EXCEPT !.tr = @ \o << <<"p", "reg_enable">>,
                                              <<"p", "reset_high">>,
                                              <<"p", "usleep_range", 500,
                                                1000>>,
                                              <<"p", "pwdn_high">> >>]

\* __ov9281_power_on, on a board that wires both the reset and the pwdn
\* line; a clock that does not take the 24 MHz rate is only logged ("k")
__ov9281_power_on(w) ==
    LET w0 == Ev(SequenceStarts(w, TRUE), <<"p", "clk_set_rate">>)
        w1 == IF w.pwr = "rate" THEN Ev(w0, <<"k", "xvclk rate">>) ELSE w0
        delay_us == ov9281_cal_delay(8192)
    IN IF w.pwr = "clk" THEN [w1 EXCEPT !.ret = -EIO]
       ELSE LET w2 == Ev(Ev([clk_prepare_enable(w1) EXCEPT !.hw.reset = 0],
                            <<"p", "clk_enable">>), <<"p", "reset_low">>)
            IN IF w.pwr = "reg"
               THEN [Ev(clk_disable_unprepare(w2), <<"p", "clk_disable">>)
                        EXCEPT !.ret = -EIO]
               ELSE [[regulator_bulk_enable(w2) EXCEPT !.hw.reset = 1,
                                !.hw.pwdn = 1, !.ret = 0]
                        EXCEPT !.tr = @ \o << <<"p", "reg_enable">>,
                                              <<"p", "reset_high">>,
                                              <<"p", "usleep_range", 500,
                                                1000>>,
                                              <<"p", "pwdn_high">>,
                                              <<"p", "usleep_range", delay_us,
                                                delay_us * 2>> >>]

\* __ov9281_power_off
__ov9281_power_off(w) ==
    [regulator_bulk_disable(clk_disable_unprepare(SequenceStarts(w, FALSE)))
        EXCEPT !.hw.reset = 0, !.hw.pwdn = 0,
              !.regs = RegsReset,
              !.tr = @ \o << <<"p", "pwdn_low">>, <<"p", "clk_disable">>,
                            <<"p", "reset_low">>, <<"p", "reg_disable">> >>]

\* ov9281_runtime_resume / ov9281_runtime_suspend
ov9281_runtime_resume(w) == __ov9281_power_on(w)
ov9281_runtime_suspend(w) == [__ov9281_power_off(w) EXCEPT !.ret = 0]

\* ------------------------------------------------------- runtime-PM core
\* rpm_idle(dev, RPM_ASYNC): with no idle callback, queue a suspend request
rpm_idle_async(w) ==
    IF w.pm.error \/ w.pm.usage > 0 \/ w.pm.status # "active"
    THEN w
    ELSE [w EXCEPT !.pm.request = "suspend"]

\* rpm_resume(dev, flags)
rpm_resume(w, async) ==
    IF w.pm.error THEN [w EXCEPT !.ret = -EINVAL]
    ELSE LET w1 == [w EXCEPT !.pm.request = "none"]
         IN IF w1.pm.status = "active" THEN [w1 EXCEPT !.ret = 1]
            ELSE IF async
                 THEN [w1 EXCEPT !.pm.request = "resume", !.ret = 0]
                 ELSE LET w2 == ov9281_runtime_resume(w1)
                      IN IF w2.ret < 0
                         THEN [w2 EXCEPT !.pm.error = TRUE]
                         ELSE rpm_idle_async(
                                  [w2 EXCEPT !.pm.status = "active", !.ret = 0])

\* rpm_suspend(dev, RPM_NOWAIT | RPM_AUTO) from the PM workqueue
rpm_suspend(w) ==
    IF w.pm.error \/ w.pm.usage > 0 \/ w.pm.status # "active"
    THEN w
    ELSE [ov9281_runtime_suspend(w) EXCEPT !.pm.status = "suspended"]

pm_runtime_get_sync(w) ==
    rpm_resume([w EXCEPT !.pm.usage = @ + 1, !.refs = @ + 1], FALSE)

pm_runtime_get(w) ==
    rpm_resume([w EXCEPT !.pm.usage = @ + 1, !.refs = @ + 1], TRUE)

pm_runtime_put_noidle(w) ==
    [w EXCEPT !.pm.usage = IF @ = 0 THEN 0 ELSE @ - 1, !.refs = @ - 1]

pm_runtime_put(w) ==
    LET w1 == [w EXCEPT !.pm.usage = @ - 1, !.refs = @ - 1]
    IN IF w1.pm.usage = 0 THEN rpm_idle_async(w1) ELSE w1

\* pm_runtime_work: the queued asynchronous request is carried out
pm_runtime_work(w) ==
    LET w1 == [w EXCEPT !.pm.request = "none"]
    IN CASE w.pm.request = "resume" -> rpm_resume(w1, FALSE)
         [] w.pm.request = "suspend" -> rpm_suspend(w1)
         [] OTHER -> w

\* -------------------------------------------------- V4L2 control framework
\* the handler lock is the driver's mutex (handler->lock = &ov9281->mutex)
hdl_lock(w) == [w EXCEPT !.mutex = w.self, !.sync = Append(@, "lock")]
hdl_unlock(w) == [w EXCEPT !.mutex = 0, !.sync = Append(@, "unlock")]

HasOps(id) == id \in {"VBLANK", "EXPOSURE", "ANALOGUE_GAIN", "TEST_PATTERN"}
IsMenu(id) == id = "TEST_PATTERN"
IsReadOnly(id) == id = "HBLANK"
Clamp(v, c) == Max(c.min, Min(c.max, v))

RECURSIVE ov9281_set_ctrl(_, _, _)

\* call_op(master, s_ctrl)
call_s_ctrl(w, id, val) ==
    IF HasOps(id)
    THEN ov9281_set_ctrl(Ev(w, <<"c", id, val>>), id, val)
    ELSE [w EXCEPT !.ret = 0]

\* set_ctrl / try_or_set_cluster: validate the new value (integers are
\* rounded into range, menu indices out of range are refused), do nothing
\* when the value is the current one, else call s_ctrl and make the new
\* value current only when s_ctrl returned 0
set_ctrl(w, id, val) ==
    IF IsMenu(id) /\ (val < w.ctl[id].min \/ val > w.ctl[id].max)
    THEN [w EXCEPT !.ret = -ERANGE]
    ELSE LET v == IF IsMenu(id) THEN val ELSE Clamp(val, w.ctl[id])
         IN IF v = w.ctl[id].cur THEN [w EXCEPT !.ret = 0]
            ELSE LET w1 == call_s_ctrl(w, id, v)
                 IN IF w1.ret # 0 THEN w1 ELSE [w1 EXCEPT !.ctl[id].cur = v]

\* __v4l2_ctrl_s_ctrl
v4l2_ctrl_s_ctrl(w, id, val) == set_ctrl(w, id, val)

\* __v4l2_ctrl_modify_range: store the range, then set the control again if
\* its current value had to be rounded into the new range
v4l2_ctrl_modify_range(w, id, min, max, def) ==
    IF min > max \/ def < min \/ def > max THEN [w EXCEPT !.ret = -ERANGE]
    ELSE LET w1 == [w EXCEPT !.ctl[id].min = min, !.ctl[id].max = max,
                             !.ctl[id].def = def, !.ret = 0]
             new == Clamp(w1.ctl[id].cur, w1.ctl[id])
         IN IF new # w1.ctl[id].cur THEN set_ctrl(w1, id, new) ELSE w1

RECURSIVE handler_setup_from(_, _)
handler_setup_from(w, i) ==
    IF i > Len(CtrlOrder) THEN w
    ELSE IF IsReadOnly(CtrlOrder[i]) THEN handler_setup_from(w, i + 1)
    ELSE LET w1 == call_s_ctrl(w, CtrlOrder[i], w.ctl[CtrlOrder[i]].cur)
         IN IF w1.ret # 0 THEN w1 ELSE handler_setup_from(w1, i + 1)

\* v4l2_ctrl_handler_setup: s_ctrl of every control with its current value,
\* in creation order, stopping at the first error
v4l2_ctrl_handler_setup(w) ==
    hdl_unlock(handler_setup_from([hdl_lock(w) EXCEPT !.ret = 0], 1))

\* ------------------------------------------------------ control translator
\* ov9281_enable_test_pattern
ov9281_enable_test_pattern(w, pattern) ==
    ov9281_write_reg(w, OV9281_REG_TEST_PATTERN, OV9281_REG_VALUE_08BIT,
                     IF pattern # 0
                     THEN OrBit(pattern - 1, OV9281_TEST_PATTERN_ENABLE)
                     ELSE OV9281_TEST_PATTERN_DISABLE)

\* the PM workqueue may run between two PM calls of one locked section
AsyncWorkMayRun(w) ==
    IF w.mid THEN [pm_runtime_work(w) EXCEPT !.tr = w.tr, !.ret = w.ret] ELSE w

\* int ret = x; ret |= y  (both 0 or a negative errno)
OrRet(x, y) == IF x # 0 THEN x ELSE y

\* ctrl_write that gives up the gain after a failed first write
ctrl_write_gain_stop(w, id, val) ==
    CASE id = "EXPOSURE" ->
           ov9281_write_reg(w, OV9281_REG_EXPOSURE, OV9281_REG_VALUE_24BIT,
                            ShiftL(val, 4))
      [] id = "ANALOGUE_GAIN" ->
           LET a == ov9281_write_reg(w, OV9281_REG_GAIN_H,
                        OV9281_REG_VALUE_08BIT,
                        AndMask(ShiftR(val, OV9281_GAIN_H_SHIFT),
                                OV9281_GAIN_H_MASK))
           IN IF a.ret # 0 THEN a
              ELSE ov9281_write_reg(a, OV9281_REG_GAIN_L,
                        OV9281_REG_VALUE_08BIT,
                        AndMask(val, OV9281_GAIN_L_MASK))
      [] id = "VBLANK" ->
           ov9281_write_reg(w, OV9281_REG_VTS, OV9281_REG_VALUE_16BIT,
                            val + supported_modes[w.cur_mode].height)
      [] id = "TEST_PATTERN" -> ov9281_enable_test_pattern(w, val)
      [] OTHER -> [w EXCEPT !.ret = 0]

\* ctrl_write that sends the exposure as two bytes
ctrl_write_exposure_16bit(w, id, val) ==
    CASE id = "EXPOSURE" ->
           ov9281_write_reg(w, OV9281_REG_EXPOSURE, OV9281_REG_VALUE_16BIT,
                            ShiftL(val, 4))
      [] id = "ANALOGUE_GAIN" ->
           LET a == ov9281_write_reg(w, OV9281_REG_GAIN_H,
                        OV9281_REG_VALUE_08BIT,
                        AndMask(ShiftR(val, OV9281_GAIN_H_SHIFT),
                                OV9281_GAIN_H_MASK))
               b == ov9281_write_reg(a, OV9281_REG_GAIN_L,
                        OV9281_REG_VALUE_08BIT,
                        AndMask(val, OV9281_GAIN_L_MASK))
           IN [b EXCEPT !.ret = OrRet(a.ret, b.ret)]
      [] id = "VBLANK" ->
           ov9281_write_reg(w, OV9281_REG_VTS, OV9281_REG_VALUE_16BIT,
                            val + supported_modes[w.cur_mode].height)
      [] id = "TEST_PATTERN" -> ov9281_enable_test_pattern(w, val)
      [] OTHER -> [w EXCEPT !.ret = 0]

\* ctrl_write that sends the frame length as a single byte
ctrl_write_vts_8bit(w, id, val) ==
    CASE id = "EXPOSURE" ->
           ov9281_write_reg(w, OV9281_REG_EXPOSURE, OV9281_REG_VALUE_24BIT,
                            ShiftL(val, 4))
      [] id = "ANALOGUE_GAIN" ->
           LET a == ov9281_write_reg(w, OV9281_REG_GAIN_H,
                        OV9281_REG_VALUE_08BIT,
                        AndMask(ShiftR(val, OV9281_GAIN_H_SHIFT),
                                OV9281_GAIN_H_MASK))
               b == ov9281_write_reg(a, OV9281_REG_GAIN_L,
                        OV9281_REG_VALUE_08BIT,
                        AndMask(val, OV9281_GAIN_L_MASK))
           IN [b EXCEPT !.ret = OrRet(a.ret, b.ret)]
      [] id = "VBLANK" ->
           ov9281_write_reg(w, OV9281_REG_VTS, OV9281_REG_VALUE_08BIT,
                            val + supported_modes[w.cur_mode].height)
      [] id = "TEST_PATTERN" -> ov9281_enable_test_pattern(w, val)
      [] OTHER -> [w EXCEPT !.ret = 0]

\* the register writes of ov9281_set_ctrl (second switch)
ctrl_write(w, id, val) ==
    CASE id = "EXPOSURE" ->
           ov9281_write_reg(w, OV9281_REG_EXPOSURE, OV9281_REG_VALUE_24BIT,
                            ShiftL(val, 4))
      [] id = "ANALOGUE_GAIN" ->
           LET a == ov9281_write_reg(w, OV9281_REG_GAIN_H,
                        OV9281_REG_VALUE_08BIT,
                        AndMask(ShiftR(val, OV9281_GAIN_H_SHIFT),
                                OV9281_GAIN_H_MASK))
               b == ov9281_write_reg(a, OV9281_REG_GAIN_L,
                        OV9281_REG_VALUE_08BIT,
                        AndMask(val, OV9281_GAIN_L_MASK))
           IN [b EXCEPT !.ret = OrRet(a.ret, b.ret)]
      [] id = "VBLANK" ->
           ov9281_write_reg(w, OV9281_REG_VTS, OV9281_REG_VALUE_16BIT,
                            val + supported_modes[w.cur_mode].height)
      [] id = "TEST_PATTERN" -> ov9281_enable_test_pattern(w, val)
      [] OTHER -> [w EXCEPT !.ret = 0]

\* the exposure maximum that goes with a vertical blanking
exposure_max_for(w, vblank) == supported_modes[w.cur_mode].height + vblank - 4

\* ov9281_set_ctrl that writes whatever pm_runtime_get returned
ov9281_set_ctrl_no_gate(w, id, val) ==
    LET w1 == IF id = "VBLANK"
              THEN AsyncWorkMayRun(
                       v4l2_ctrl_modify_range(w, "EXPOSURE",
                           w.ctl["EXPOSURE"].min, exposure_max_for(w, val),
                           w.ctl["EXPOSURE"].def))
              ELSE w
        w2 == pm_runtime_get(w1)
        w3 == ctrl_write(w2, id, val)
    IN [pm_runtime_put(w3) EXCEPT !.ret = w3.ret]

\* ov9281_set_ctrl that returns without the register write when resumed
ov9281_set_ctrl_no_write(w, id, val) ==
    LET w1 == IF id = "VBLANK"
              THEN AsyncWorkMayRun(
                       v4l2_ctrl_modify_range(w, "EXPOSURE",
                           w.ctl["EXPOSURE"].min, exposure_max_for(w, val),
                           w.ctl["EXPOSURE"].def))
              ELSE w
        w2 == pm_runtime_get(w1)
    IN IF w2.ret <= 0 THEN [w2 EXCEPT !.ret = 0]
       ELSE [pm_runtime_put(w2) EXCEPT !.ret = 0]

\* ov9281_set_ctrl
ov9281_set_ctrl(w, id, val) ==
    LET w1 == IF id = "VBLANK"
              THEN AsyncWorkMayRun(
                       v4l2_ctrl_modify_range(w, "EXPOSURE",
                           w.ctl["EXPOSURE"].min, exposure_max_for(w, val),
                           w.ctl["EXPOSURE"].def))
              ELSE w
        w2 == pm_runtime_get(w1)
    IN IF w2.ret <= 0 THEN [w2 EXCEPT !.ret = 0]
       ELSE LET w3 == ctrl_write(w2, id, val)
            IN [pm_runtime_put(w3) EXCEPT !.ret = w3.ret]

\* ------------------------------------------------------ format negotiator
\* abs() of a u32 difference: the macro takes the difference as a signed
\* int, which for sizes below 2^31 is the mathematical difference
AbsDiff(a, b) == IF a - b < 0 THEN b - a ELSE a - b

\* ov9281_get_reso_dist
ov9281_get_reso_dist(m, f) ==
    AbsDiff(supported_modes[m].width, f.width)
    + AbsDiff(supported_modes[m].height, f.height)

RECURSIVE best_fit_from(_, _, _, _)
best_fit_from(f, i, best, best_dist) ==
    IF i > Len(supported_modes) THEN best
    ELSE LET dist == ov9281_get_reso_dist(i, f)
         IN IF best_dist = -1 \/ dist < best_dist
            THEN best_fit_from(f, i + 1, i, dist)
            ELSE best_fit_from(f, i + 1, best, best_dist)

\* ov9281_find_best_fit: index of the mode nearest to the requested size
ov9281_find_best_fit(f) == best_fit_from(f, 1, 1, -1)

NoRect == [left |-> 0, top |-> 0, width |-> 0, height |-> 0]

\* the format the driver reports for a mode
ModeFormat(m) ==
    [width |-> supported_modes[m].width, height |-> supported_modes[m].height,
     code |-> "Y10_1X10", field |-> "NONE", colorspace |-> "SRGB"]

\* ------------------------------------------------- entry points, per thread
\* the state a locked section works on, with the section's inputs: the
\* writes the bus fails (flt), the outcome of a power-on (pwr), and whether
\* the PM workqueue runs inside the section (mid)
World(t, flt, pwr, mid) ==
    [mutex |-> mutex, streaming |-> streaming, power_on |-> power_on,
     cur_mode |-> cur_mode, ctl |-> ctl, try_fmt |-> try_fmt, pm |-> pm,
     hw |-> hw, regs |-> regs, tr |-> tr[t], refs |-> refs[t],
     ret |-> 0, n |-> 0, flt |-> flt, pwr |-> pwr, mid |-> mid, next |-> "ret",
     self |-> t, sync |-> sync[t], out |-> out[t], bus |-> bus[t],
     misuse |-> misuse, dev |-> dev,
     nr |-> 0, rflt |-> {}, mem |-> ChipIdRegs(CHIP_ID), val |-> 0]

\* the section's result becomes the new state; the thread moves to w.next
Commit(t, w) ==
    /\ mutex' = w.mutex
    /\ streaming' = w.streaming
    /\ power_on' = w.power_on
    /\ cur_mode' = w.cur_mode
    /\ ctl' = w.ctl
    /\ try_fmt' = w.try_fmt
    /\ pm' = w.pm
    /\ hw' = w.hw
    /\ regs' = w.regs
    /\ tr' = [tr EXCEPT ![t] = w.tr]
    /\ refs' = [refs EXCEPT ![t] = w.refs]
    /\ rv' = [rv EXCEPT ![t] = w.ret]
    /\ pc' = [pc EXCEPT ![t] = w.next]
    /\ sync' = [sync EXCEPT ![t] = w.sync]
    /\ out' = [out EXCEPT ![t] = w.out]
    /\ bus' = [bus EXCEPT ![t] = w.bus]
    /\ misuse' = w.misuse

mutex_lock(w) == [w EXCEPT !.mutex = w.self, !.sync = Append(@, "lock")]
mutex_unlock(w) == [w EXCEPT !.mutex = 0, !.sync = Append(@, "unlock")]

\* the calling thread reads or writes a field of struct ov9281
Touch(w, field) == [w EXCEPT !.sync = Append(@, field)]

\* __ov9281_stop_stream
__ov9281_stop_stream(w) ==
    ov9281_write_reg(w, OV9281_REG_CTRL_MODE, OV9281_REG_VALUE_08BIT,
                     OV9281_MODE_SW_STANDBY)

\* start_stream_head that keeps the mutex across the control replay
start_stream_head_keep_lock(w) ==
    LET w1 == ov9281_write_array(Touch(w, "cur_mode"),
                                 supported_modes[w.cur_mode].reg_list)
    IN IF w1.ret # 0 THEN w1
       ELSE [w1 EXCEPT !.next = "setup"]

\* __ov9281_start_stream up to the mutex_unlock before the control replay
start_stream_head(w) ==
    LET w1 == ov9281_write_array(Touch(w, "cur_mode"),
                                 supported_modes[w.cur_mode].reg_list)
    IN IF w1.ret # 0 THEN w1
       ELSE [mutex_unlock(w1) EXCEPT !.next = "setup"]

\* __ov9281_start_stream from the mutex_lock after the control replay;
\* setup_ret is what v4l2_ctrl_handler_setup returned
start_stream_tail(w, setup_ret) ==
    IF setup_ret # 0 THEN [w EXCEPT !.ret = setup_ret]
    ELSE ov9281_write_reg(w, OV9281_REG_CTRL_MODE, OV9281_REG_VALUE_08BIT,
                          OV9281_MODE_STREAMING)

\* s_stream_started that drops the PM reference of a started stream
s_stream_started_drop_ref(w, on) ==
    IF w.ret # 0
    THEN [mutex_unlock(pm_runtime_put(w)) EXCEPT !.ret = w.ret]
    ELSE IF on = 1
    THEN mutex_unlock(Touch([pm_runtime_put(w) EXCEPT !.streaming = TRUE,
                                                      !.ret = 0],
                            "streaming"))
    ELSE mutex_unlock(Touch([w EXCEPT !.streaming = FALSE], "streaming"))

\* s_stream_started that keeps the PM reference when the start failed
s_stream_started_keep_ref(w, on) ==
    IF w.ret # 0
    THEN mutex_unlock(w)
    ELSE mutex_unlock(Touch([w EXCEPT !.streaming = (on = 1)], "streaming"))

\* ov9281_s_stream after __ov9281_start_stream has returned
s_stream_started(w, on) ==
    IF w.ret # 0
    THEN [mutex_unlock(pm_runtime_put(w)) EXCEPT !.ret = w.ret]
    ELSE mutex_unlock(Touch([w EXCEPT !.streaming = (on = 1)], "streaming"))

\* s_stream_stop that hands a failed stream-off write to the caller
s_stream_stop_propagate(w) ==
    LET w1 == __ov9281_stop_stream(w)
    IN IF w1.ret # 0 THEN mutex_unlock(w1)
       ELSE [AsyncWorkMayRun(pm_runtime_put(w1))
                EXCEPT !.ret = 0, !.next = "stopped"]

\* the stop branch of ov9281_s_stream: the stream-off write and the
\* pm_runtime_put; the flag is cleared afterwards, by the assignment that
\* the start branch shares
s_stream_stop(w) ==
    [AsyncWorkMayRun(pm_runtime_put(__ov9281_stop_stream(w)))
        EXCEPT !.ret = 0, !.next = "stopped"]

\* ov9281_s_stream from mutex_lock to the first mutex_unlock
ov9281_s_stream(w0, on_arg) ==
    LET on == IF on_arg # 0 THEN 1 ELSE 0
        w == Touch(mutex_lock(w0), "streaming")
    IN IF (on = 1) = w.streaming THEN mutex_unlock([w EXCEPT !.ret = 0])
       ELSE IF on = 1
       THEN LET w1 == pm_runtime_get_sync(w)
            IN IF w1.ret < 0
               THEN [mutex_unlock(pm_runtime_put_noidle(w1))
                        EXCEPT !.ret = w1.ret]
               ELSE LET w2 == start_stream_head(w1)
                    IN IF w2.next = "setup" THEN w2
                       ELSE s_stream_started(w2, on)
       ELSE s_stream_stop(w)

\* ov9281_s_power without the test of power_on
ov9281_s_power_unguarded(w0, on) ==
    LET w == mutex_lock(w0)
    IN IF on # 0
       THEN LET w1 == pm_runtime_get_sync(w)
            IN IF w1.ret < 0
               THEN [mutex_unlock(pm_runtime_put_noidle(w1))
                        EXCEPT !.ret = w1.ret]
               ELSE mutex_unlock(Touch([w1 EXCEPT !.power_on = TRUE],
                                       "power_on"))
       ELSE mutex_unlock(Touch([pm_runtime_put(w) EXCEPT !.power_on = FALSE,
                                                         !.ret = 0],
                               "power_on"))

\* ov9281_s_power
ov9281_s_power(w0, on) ==
    LET w == Touch(mutex_lock(w0), "power_on")
    IN IF w.power_on = (on # 0) THEN mutex_unlock([w EXCEPT !.ret = 0])
       ELSE IF on # 0
       THEN LET w1 == pm_runtime_get_sync(w)
            IN IF w1.ret < 0
               THEN [mutex_unlock(pm_runtime_put_noidle(w1))
                        EXCEPT !.ret = w1.ret]
               ELSE mutex_unlock(Touch([w1 EXCEPT !.power_on = TRUE],
                                       "power_on"))
       ELSE mutex_unlock(Touch([pm_runtime_put(w) EXCEPT !.power_on = FALSE,
                                                         !.ret = 0],
                               "power_on"))

\* ov9281_set_fmt; the format handed back is the mode's in both cases
ov9281_set_fmt(w0, which, f) ==
    LET mode == ov9281_find_best_fit(f)
        m == supported_modes[mode]
        w == [mutex_lock(w0) EXCEPT !.out = ModeFormat(mode)]
    IN IF which = "TRY"
       THEN mutex_unlock([w EXCEPT !.try_fmt = ModeFormat(mode), !.ret = 0])
       ELSE LET h_blank == m.hts_def - m.width
                vblank_def == m.vts_def - m.height
                w1 == Touch([w EXCEPT !.cur_mode = mode], "cur_mode")
                w2 == v4l2_ctrl_modify_range(w1, "HBLANK", h_blank, h_blank,
                                             h_blank)
                w3 == v4l2_ctrl_s_ctrl(w2, "HBLANK", h_blank)
                w4 == v4l2_ctrl_modify_range(w3, "VBLANK", vblank_def,
                          OV9281_VTS_MAX - m.height, vblank_def)
                w5 == v4l2_ctrl_s_ctrl(w4, "VBLANK", vblank_def)
            IN mutex_unlock([w5 EXCEPT !.ret = 0])

\* v4l2_s_ctrl: the framework takes the handler lock (the driver mutex),
\* sets the control and releases the lock
v4l2_s_ctrl(w, id, val) == hdl_unlock(set_ctrl(hdl_lock(w), id, val))

\* ov9281_get_fmt from mutex_lock; mode is the local that was initialised
\* from cur_mode on entry
ov9281_get_fmt(w0, which, mode) ==
    LET w == mutex_lock(w0)
    IN mutex_unlock([w EXCEPT !.out = IF which = "TRY" THEN w.try_fmt
                                      ELSE ModeFormat(mode),
                              !.ret = 0])

\* __ov9281_get_pad_crop; the driver never writes the try crop rectangle
__ov9281_get_pad_crop(w, which) ==
    IF which = "TRY" THEN NoRect ELSE supported_modes[w.cur_mode].crop

\* ov9281_get_selection
ov9281_get_selection(w0, target, which) ==
    CASE target = "CROP" ->
           LET w == mutex_lock(w0)
               w1 == IF which = "TRY" THEN w ELSE Touch(w, "cur_mode")
           IN mutex_unlock([w1 EXCEPT !.out = __ov9281_get_pad_crop(w1, which),
                                      !.ret = 0])
      [] target = "NATIVE_SIZE" ->
           [w0 EXCEPT !.out = [left |-> 0, top |-> 0,
                               width |-> OV9281_NATIVE_WIDTH,
                               height |-> OV9281_NATIVE_HEIGHT],
                      !.ret = 0]
      [] target \in {"CROP_DEFAULT", "CROP_BOUNDS"} ->
           [w0 EXCEPT !.out = [left |-> OV9281_PIXEL_ARRAY_LEFT,
                               top |-> OV9281_PIXEL_ARRAY_TOP,
                               width |-> OV9281_PIXEL_ARRAY_WIDTH,
                               height |-> OV9281_PIXEL_ARRAY_HEIGHT],
                      !.ret = 0]
      [] OTHER -> [w0 EXCEPT !.ret = -EINVAL]

\* ov9281_open: the file handle's try format becomes the default mode's
ov9281_open(w0) ==
    LET def_mode == 1
    IN mutex_unlock([mutex_lock(w0) EXCEPT !.try_fmt = ModeFormat(def_mode),
                                           !.ret = 0])

\* ---------------------------------------------------------- initial state
\* ov9281_initialize_controls: v4l2_ctrl_new_std(min, max, step 1, def);
\* a new control's current value is its default
ov9281_initialize_controls(mode) ==
    LET m == supported_modes[mode]
        h_blank == m.hts_def - m.width
        vblank_def == m.vts_def - m.height
        exposure_max == m.vts_def - 4
        new(min, max, def) == [cur |-> def, min |-> min, max |-> max, def |-> def]
    IN [id \in CtrlIds |->
          CASE id = "HBLANK" -> new(h_blank, h_blank, h_blank)
            [] id = "VBLANK" -> new(vblank_def, OV9281_VTS_MAX - m.height,
                                    vblank_def)
            [] id = "EXPOSURE" -> new(OV9281_EXPOSURE_MIN, exposure_max,
                                      m.exp_def)
            [] id = "ANALOGUE_GAIN" -> new(OV9281_GAIN_MIN, OV9281_GAIN_MAX,
                                           OV9281_GAIN_DEFAULT)
            [] id = "TEST_PATTERN" -> new(0, 4, 0)]

NoOp == [call |-> [name |-> "none"]]
NoOut == [none |-> TRUE]

\* ------------------------------------------------------------- lifecycle
\* no driver is bound to the i2c client
Unbound == [state |-> "unbound", mutex |-> "none", handler |-> "none",
            entity |-> "none", registered |-> FALSE, pm_enabled |-> FALSE]

\* ov9281_probe has succeeded and ov9281_remove has not been called
Bound == [state |-> "bound", mutex |-> "live", handler |-> "live",
          entity |-> "live", registered |-> TRUE, pm_enabled |-> TRUE]

\* a control handler without controls
NoCtl == [id \in CtrlIds |-> [cur |-> 0, min |-> 0, max |-> 0, def |-> 0]]

\* ov9281_check_sensor_id that compares the identification only
ov9281_check_sensor_id_no_ret(w, junk) ==
    LET r1 == ov9281_read_reg([w EXCEPT !.val = 0], OV9281_REG_CHIP_ID + 1,
                              OV9281_REG_VALUE_08BIT)
        id_lsb == r1.val
        r2 == IF r1.ret = 0
              THEN ov9281_read_reg([r1 EXCEPT !.val = junk], OV9281_REG_CHIP_ID,
                                   OV9281_REG_VALUE_08BIT)
              ELSE [r1 EXCEPT !.val = junk]
        id == id_lsb + ShiftL(r2.val, 8)
    IN IF id # CHIP_ID
       THEN [Ev(r2, <<"k", "Unexpected sensor id", id, r2.ret>>)
                EXCEPT !.ret = -ENODEV]
       ELSE [r2 EXCEPT !.ret = 0]

\* ov9281_check_sensor_id; id_msb is not initialised, so when the second
\* read stores nothing it holds whatever was there (junk).  The two bytes
\* occupy disjoint bits, so id |= id_msb << 8 adds them.
ov9281_check_sensor_id(w, junk) ==
    LET r1 == ov9281_read_reg([w EXCEPT !.val = 0], OV9281_REG_CHIP_ID + 1,
                              OV9281_REG_VALUE_08BIT)
        id_lsb == r1.val
        r2 == IF r1.ret = 0
              THEN ov9281_read_reg([r1 EXCEPT !.val = junk], OV9281_REG_CHIP_ID,
                                   OV9281_REG_VALUE_08BIT)
              ELSE [r1 EXCEPT !.val = junk]
        id == id_lsb + ShiftL(r2.val, 8)
    IN IF r2.ret # 0 \/ id # CHIP_ID
       THEN [Ev(r2, <<"k", "Unexpected sensor id", id, r2.ret>>)
                EXCEPT !.ret = -ENODEV]
       ELSE [r2 EXCEPT !.ret = 0]

\* the error labels of ov9281_probe
err_destroy_mutex(w, ret) ==
    [w EXCEPT !.dev.mutex = "destroyed", !.dev.state = "failed", !.ret = ret]

err_free_handler(w, ret) ==
    err_destroy_mutex([w EXCEPT !.dev.handler = "freed", !.ctl = NoCtl], ret)

err_power_off(w, ret) == err_free_handler(__ov9281_power_off(w), ret)

err_clean_entity(w, ret) ==
    err_power_off([w EXCEPT !.dev.entity = "cleaned"], ret)

\* pm_runtime_set_active, pm_runtime_enable, pm_runtime_idle: with no usage
\* count held the device is suspended at once
probe_enable_pm(w) ==
    rpm_suspend([w EXCEPT !.pm.status = "active", !.dev.pm_enabled = TRUE])

\* ov9281_probe; ext is the acquisition of an outside resource that fails
ov9281_probe(w, ext, junk) ==
    LET w0 == [w EXCEPT !.cur_mode = 1]
    IN IF ext = "xvclk"
       THEN [w0 EXCEPT !.dev.state = "failed", !.ret = -EINVAL]
       ELSE IF ext = "regulators"
       THEN [w0 EXCEPT !.dev.state = "failed", !.ret = -ENOMEM]
       ELSE LET w1 == [w0 EXCEPT !.dev.mutex = "live"]
            IN IF ext = "controls"
               THEN err_destroy_mutex([w1 EXCEPT !.dev.handler = "freed"],
                                      -ENOMEM)
               ELSE
       LET w2 == [w1 EXCEPT !.ctl = ov9281_initialize_controls(w1.cur_mode),
                            !.dev.handler = "live"]
           w3 == __ov9281_power_on(w2)
       IN IF w3.ret # 0 THEN err_free_handler(w3, w3.ret)
          ELSE LET w4 == ov9281_check_sensor_id(w3, junk)
               IN IF w4.ret # 0 THEN err_power_off(w4, w4.ret)
                  ELSE IF ext = "pads" THEN err_power_off(w4, -ENOMEM)
                  ELSE LET w5 == [w4 EXCEPT !.dev.entity = "live"]
                       IN IF ext = "register"
                          THEN err_clean_entity(w5, -ENOMEM)
                          ELSE [probe_enable_pm(
                                    [w5 EXCEPT !.dev.registered = TRUE])
                                   EXCEPT !.dev.state = "bound", !.ret = 0]
\* __pm_runtime_disable(dev, true): a resume request that is pending is
\* carried out first, any other request is cancelled
pm_runtime_disable(w) ==
    LET w1 == IF w.pm.request = "resume" THEN pm_runtime_work(w) ELSE w
    IN [w1 EXCEPT !.pm.request = "none", !.dev.pm_enabled = FALSE,
                  !.tr = w.tr, !.ret = w.ret]

\* ov9281_remove that powers off whatever the PM core reports
ov9281_remove_always_off(w) ==
    LET w1 == [w EXCEPT !.dev.registered = FALSE, !.dev.entity = "cleaned",
                        !.dev.handler = "freed", !.ctl = NoCtl,
                        !.dev.mutex = "destroyed"]
        w2 == pm_runtime_disable(w1)
        w3 == __ov9281_power_off(w2)
    IN [w3 EXCEPT !.pm.status = "suspended", !.dev.state = "removed",
                  !.ret = 0]

\* ov9281_remove
ov9281_remove(w) ==
    LET w1 == [w EXCEPT !.dev.registered = FALSE, !.dev.entity = "cleaned",
                        !.dev.handler = "freed", !.ctl = NoCtl,
                        !.dev.mutex = "destroyed"]
        w2 == pm_runtime_disable(w1)
        w3 == IF w2.pm.status # "suspended" THEN __ov9281_power_off(w2)
              ELSE w2
    IN [w3 EXCEPT !.pm.status = "suspended", !.dev.state = "removed",
                  !.ret = 0]

NoFmt == [width |-> 0, height |-> 0, code |-> "none", field |-> "none",
          colorspace |-> "none"]

\* the state ov9281_probe leaves on success: controls initialised, identity
\* verified, runtime PM enabled and the device idled to suspended
Probed ==
    /\ mutex = 0
    /\ streaming = FALSE
    /\ power_on = FALSE
    /\ cur_mode = 1
    /\ ctl = ov9281_initialize_controls(1)
    /\ try_fmt = NoFmt
    /\ pm = [usage |-> 0, status |-> "suspended", request |-> "none",
             error |-> FALSE]
    /\ hw = [clk |-> FALSE, reg |-> FALSE, reset |-> 0, pwdn |-> 0]
    /\ regs = RegsReset
    /\ pc = [t \in Threads |-> "idle"]
    /\ op = [t \in Threads |-> NoOp]
    /\ tr = [t \in Threads |-> <<>>]
    /\ rv = [t \in Threads |-> 0]
    /\ refs = [t \in Threads |-> 0]
    /\ calls = 0
    /\ absorbed = {}
    /\ sync = [t \in Threads |-> <<>>]
    /\ out = [t \in Threads |-> NoOut]
    /\ bus = [t \in Threads |-> NoBus]
    /\ misuse = {}
    /\ dev = Bound

\* the state before ov9281_probe: the handle is not allocated, the sensor is
\* unpowered, runtime PM is disabled with the device marked suspended
Unprobed ==
    /\ mutex = 0
    /\ streaming = FALSE
    /\ power_on = FALSE
    /\ cur_mode = 0
    /\ ctl = NoCtl
    /\ try_fmt = NoFmt
    /\ pm = [usage |-> 0, status |-> "suspended", request |-> "none",
             error |-> FALSE]
    /\ hw = [clk |-> FALSE, reg |-> FALSE, reset |-> 0, pwdn |-> 0]
    /\ regs = RegsReset
    /\ pc = [t \in Threads |-> "idle"]
    /\ op = [t \in Threads |-> NoOp]
    /\ tr = [t \in Threads |-> <<>>]
    /\ rv = [t \in Threads |-> 0]
    /\ refs = [t \in Threads |-> 0]
    /\ calls = 0
    /\ absorbed = {}
    /\ sync = [t \in Threads |-> <<>>]
    /\ out = [t \in Threads |-> NoOut]
    /\ bus = [t \in Threads |-> NoBus]
    /\ misuse = {}
    /\ dev = Unbound

\* an I2C bus on which single transfers may fail
Init ==
    /\ Probed
    /\ faults = FaultPlans
    /\ limit = [threads |-> 2, calls |-> MaxCalls]

\* an I2C bus that completes every transfer
InitNoFault ==
    /\ Probed
    /\ faults = {{}}
    /\ limit = [threads |-> 2, calls |-> MaxCalls]

\* one caller that issues its calls one after the other, on a bus that may
\* fail the first transfer of a call
InitSerial ==
    /\ Probed
    /\ faults = SerialFaultPlans
    /\ limit = [threads |-> 1, calls |-> MaxSerialCalls]

\* the i2c core is about to bind the driver; once bound, two callers use the
\* subdevice on a bus that completes every write
InitProbe ==
    /\ Unprobed
    /\ faults = {{}}
    /\ limit = [threads |-> 2, calls |-> MaxCalls]

\* the state after a successful s_power(1): the sensor is on and the handle
\* holds a runtime-PM reference
PoweredUp ==
    /\ mutex = 0
    /\ streaming = FALSE
    /\ power_on = TRUE
    /\ cur_mode = 1
    /\ ctl = ov9281_initialize_controls(1)
    /\ try_fmt = NoFmt
    /\ pm = [usage |-> 1, status |-> "active", request |-> "none",
             error |-> FALSE]
    /\ hw = [clk |-> TRUE, reg |-> TRUE, reset |-> 1, pwdn |-> 1]
    /\ regs = RegsReset
    /\ pc = [t \in Threads |-> "idle"]
    /\ op = [t \in Threads |-> NoOp]
    /\ tr = [t \in Threads |-> <<>>]
    /\ rv = [t \in Threads |-> 0]
    /\ refs = [t \in Threads |-> 0]
    /\ calls = 0
    /\ absorbed = {}
    /\ sync = [t \in Threads |-> <<>>]
    /\ out = [t \in Threads |-> NoOut]
    /\ bus = [t \in Threads |-> NoBus]
    /\ misuse = {}
    /\ dev = Bound

\* one caller hands register tables to ov9281_write_array on a bus that may
\* fail any one of the first three transfers
InitArray ==
    /\ PoweredUp
    /\ faults = ArrayFaultPlans
    /\ limit = [threads |-> 1, calls |-> 1]

\* ------------------------------------------------------------------ inputs
\* what ov9281_probe may meet: the part on the bus, the identification read
\* that fails, the outside resource that cannot be had, stack contents
ChipIds == {CHIP_ID, 22089, 37449, 22145}   \* 0x9281 0x5649 0x9249 0x5681
ReadFaults == {{}, {1}, {2}}
ProbeFaults == {"none", "xvclk", "regulators", "controls", "pads", "register"}
StackJunk == {0, 146}
StreamArgs == {0, 1}
PowerArgs == {0, 1}
\* control writes a caller issues: in range, at the range ends, out of range
CtrlArgs == {<<"VBLANK", 110>>, <<"VBLANK", 4096>>, <<"EXPOSURE", 4892>>,
             <<"ANALOGUE_GAIN", 300>>, <<"TEST_PATTERN", 3>>}
FmtArgs == {<<"TRY", 640, 400>>, <<"ACTIVE", 1920, 1080>>}
WhichArgs == {"TRY", "ACTIVE"}
SelArgs == {<<"CROP", "ACTIVE">>, <<"CROP", "TRY">>, <<"CROP_BOUNDS", "ACTIVE">>,
            <<"COMPOSE", "ACTIVE">>}
\* ----------------------------------------------------------------- actions
\* A call whose result is being handed back is handed back first: Return only
\* clears the caller's locals, so it commutes with every other step.
NoReturnPending == \A u \in Threads : pc[u] # "ret"

\* what a caller could observe just before its call
Pre == [streaming |-> streaming, power_on |-> power_on, pm |-> pm, hw |-> hw,
        ctl |-> ctl]

\* A thread enters an entry point of the registered subdevice.  Callers
\* are interchangeable, so a call is given to the lowest idle thread.
CanStart(t) ==
    /\ pc[t] = "idle"
    /\ dev.registered
    /\ NoReturnPending
    /\ calls < limit.calls
    /\ t <= limit.threads
    /\ \A u \in Threads : u < t => pc[u] # "idle"

\* The entry point runs from its mutex_lock, which succeeds when the mutex
\* is free, to its first mutex_unlock.
CanEnter(t) == CanStart(t) /\ mutex = 0

\* the call a thread is in, and the state it was made in
Called(t, o) ==
    /\ op' = [op EXCEPT ![t] = [call |-> o, pre |-> Pre]]
    /\ calls' = calls + 1
    /\ UNCHANGED <<faults, limit, dev>>

\* the absorbed writes whose stored value the step has not replaced
StillAbsorbed == {id \in absorbed : ctl'[id].cur = ctl[id].cur}

SStream(t, on) ==
    /\ CanEnter(t)
    /\ \E flt \in faults, pwr \in PowerFaults, mid \in BOOLEAN :
           Commit(t, ov9281_s_stream(World(t, flt, pwr, mid), on))
    /\ Called(t, [name |-> "s_stream", on |-> on])
    /\ UNCHANGED absorbed

SPower(t, on) ==
    /\ CanEnter(t)
    /\ \E flt \in faults, pwr \in PowerFaults, mid \in BOOLEAN :
           Commit(t, ov9281_s_power(World(t, flt, pwr, mid), on))
    /\ Called(t, [name |-> "s_power", on |-> on])
    /\ UNCHANGED absorbed

SCtrl(t, id, val) ==
    /\ CanEnter(t)
    /\ \E flt \in faults, pwr \in PowerFaults, mid \in BOOLEAN :
           Commit(t, v4l2_s_ctrl(World(t, flt, pwr, mid), id, val))
    /\ Called(t, [name |-> "s_ctrl", id |-> id, val |-> val])
    /\ absorbed' = IF pm.status = "suspended" /\ pm'.status = "suspended"
                   THEN StillAbsorbed \cup {id}
                   ELSE StillAbsorbed \ {id}

SetFmt(t, which, width, height) ==
    /\ CanEnter(t)
    /\ \E flt \in faults, pwr \in PowerFaults, mid \in BOOLEAN :
           Commit(t, ov9281_set_fmt(World(t, flt, pwr, mid), which,
                                    [width |-> width, height |-> height]))
    /\ Called(t, [name |-> "set_fmt", which |-> which, width |-> width,
                  height |-> height])
    /\ absorbed' = StillAbsorbed

\* ov9281_get_fmt up to its mutex_lock: the local mode is initialised from
\* cur_mode
GetFmtEntry(t, which) ==
    /\ CanStart(t)
    /\ Commit(t, [Touch(World(t, {}, "none", FALSE), "cur_mode")
                     EXCEPT !.next = "getfmt"])
    /\ Called(t, [name |-> "get_fmt", which |-> which, mode |-> cur_mode])
    /\ UNCHANGED absorbed

\* ov9281_get_fmt from its mutex_lock
GetFmt(t) ==
    /\ pc[t] = "getfmt"
    /\ mutex = 0
    /\ NoReturnPending
    /\ Commit(t, ov9281_get_fmt(World(t, {}, "none", FALSE), op[t].call.which,
                                op[t].call.mode))
    /\ UNCHANGED <<op, calls, faults, limit, absorbed, dev>>

GetSelection(t, target, which) ==
    /\ IF target = "CROP" THEN CanEnter(t) ELSE CanStart(t)
    /\ Commit(t, ov9281_get_selection(World(t, {}, "none", FALSE), target,
                                      which))
    /\ Called(t, [name |-> "get_selection", target |-> target,
                  which |-> which])
    /\ UNCHANGED absorbed

Open(t) ==
    /\ CanEnter(t)
    /\ Commit(t, ov9281_open(World(t, {}, "none", FALSE)))
    /\ Called(t, [name |-> "open"])
    /\ UNCHANGED absorbed

\* v4l2_ctrl_handler_setup, called by __ov9281_start_stream with the mutex
\* released: it takes the handler lock, replays the controls and releases it
HandlerSetup(t) ==
    /\ pc[t] = "setup"
    /\ mutex = 0
    /\ NoReturnPending
    /\ \E flt \in faults, pwr \in PowerFaults, mid \in BOOLEAN :
           Commit(t, [v4l2_ctrl_handler_setup(World(t, flt, pwr, mid))
                         EXCEPT !.next = "relock"])
    /\ UNCHANGED <<op, calls, faults, limit, absorbed, dev>>

\* mutex_lock after the replay
Relock(t) ==
    /\ pc[t] = "relock"
    /\ mutex = 0
    /\ NoReturnPending
    /\ mutex' = t
    /\ pc' = [pc EXCEPT ![t] = "finish"]
    /\ sync' = [sync EXCEPT ![t] = Append(@, "lock")]
    /\ UNCHANGED <<streaming, power_on, cur_mode, ctl, try_fmt, pm, hw, regs,
                   op, tr, rv, refs, calls, faults, limit, absorbed, out, bus,
                   misuse, dev>>

\* the rest of __ov9281_start_stream and of ov9281_s_stream
SStreamFinish(t) ==
    /\ pc[t] = "finish"
    /\ \E flt \in faults, pwr \in PowerFaults, mid \in BOOLEAN :
           Commit(t, s_stream_started(
                         start_stream_tail(World(t, flt, pwr, mid), rv[t]), 1))
    /\ UNCHANGED <<op, calls, faults, limit, absorbed, dev>>

\* ov9281_s_stream after the stop branch: streaming = on, mutex_unlock
SStreamClear(t) ==
    /\ pc[t] = "stopped"
    /\ Commit(t, s_stream_started(World(t, {}, "none", FALSE), 0))
    /\ UNCHANGED <<op, calls, faults, limit, absorbed, dev>>

\* the call has returned to its caller
Return(t) ==
    /\ pc[t] = "ret"
    /\ pc' = [pc EXCEPT ![t] = "idle"]
    /\ op' = [op EXCEPT ![t] = NoOp]
    /\ tr' = [tr EXCEPT ![t] = <<>>]
    /\ rv' = [rv EXCEPT ![t] = 0]
    /\ refs' = [refs EXCEPT ![t] = 0]
    /\ sync' = [sync EXCEPT ![t] = <<>>]
    /\ out' = [out EXCEPT ![t] = NoOut]
    /\ bus' = [bus EXCEPT ![t] = NoBus]
    /\ absorbed' = IF op[t].call.name = "s_stream" /\ streaming
                   THEN {} ELSE absorbed
    /\ UNCHANGED <<mutex, streaming, power_on, cur_mode, ctl, try_fmt, pm, hw,
                   regs, calls, faults, limit, misuse, dev>>

\* The PM workqueue carries out a queued resume or suspend request.  Taking
\* or releasing the mutex does not touch PM state, so work that runs while a
\* thread holds the mutex is the section's input mid.
PmWork ==
    /\ pm.request # "none"
    /\ mutex = 0
    /\ NoReturnPending
    /\ \E pwr \in PowerFaults :
           LET w == pm_runtime_work(World(1, {}, pwr, FALSE))
           IN /\ pm' = w.pm
              /\ hw' = w.hw
              /\ misuse' = w.misuse
              /\ regs' = w.regs
    /\ UNCHANGED <<mutex, streaming, power_on, cur_mode, ctl, try_fmt, pc, op,
                   tr, rv, refs, calls, faults, limit, absorbed, sync, out, bus,
                   dev>>

\* the i2c core binds the driver: ov9281_probe runs in the binding thread
Probe ==
    /\ dev.state = "unbound"
    /\ pc[1] = "idle"
    /\ \E chip \in ChipIds, rflt \in ReadFaults, ext \in ProbeFaults,
          pwr \in PowerFaults, junk \in StackJunk :
           LET w0 == [World(1, {}, pwr, FALSE)
                         EXCEPT !.mem = ChipIdRegs(chip), !.rflt = rflt]
               w == ov9281_probe(w0, ext, junk)
           IN Commit(1, w) /\ dev' = w.dev
    /\ op' = [op EXCEPT ![1] = [call |-> [name |-> "probe"], pre |-> Pre]]
    /\ UNCHANGED <<calls, faults, limit, absorbed>>

\* the i2c core unbinds the driver; the subdevice is unregistered first, so
\* no call is in progress
Remove ==
    /\ dev.state = "bound"
    /\ \A t \in Threads : pc[t] = "idle"
    /\ \E pwr \in PowerFaults :
           LET w == ov9281_remove(World(1, {}, pwr, FALSE))
           IN Commit(1, w) /\ dev' = w.dev
    /\ op' = [op EXCEPT ![1] = [call |-> [name |-> "remove"], pre |-> Pre]]
    /\ UNCHANGED <<calls, faults, limit, absorbed>>

Next ==
    \/ \E t \in Threads, on \in StreamArgs : SStream(t, on)
    \/ \E t \in Threads, on \in PowerArgs : SPower(t, on)
    \/ \E t \in Threads, c \in CtrlArgs : SCtrl(t, c[1], c[2])
    \/ \E t \in Threads, f \in FmtArgs : SetFmt(t, f[1], f[2], f[3])
    \/ \E t \in Threads, which \in WhichArgs : GetFmtEntry(t, which)
    \/ \E t \in Threads : GetFmt(t)
    \/ \E t \in Threads, a \in SelArgs : GetSelection(t, a[1], a[2])
    \/ \E t \in Threads : Open(t)
    \/ \E t \in Threads : HandlerSetup(t)
    \/ \E t \in Threads : Relock(t)
    \/ \E t \in Threads : SStreamFinish(t)
    \/ \E t \in Threads : SStreamClear(t)
    \/ \E t \in Threads : Return(t)
    \/ PmWork

Spec == Init /\ [][Next]_vars

SpecNoFault == InitNoFault /\ [][Next]_vars

SpecSerial == InitSerial /\ [][Next]_vars

\* Scheduling: a thread that is runnable is eventually run, and a mutex that
\* stays free is eventually given to a thread waiting for it.  Entering a
\* new call is the caller's choice and carries no fairness.
\* HandlerSetup(t) is the only step that takes thread t from "setup" to
\* "relock" and it can be taken whenever its guard holds, so the step is
\* named here by its guard and its change of position.
HandlerSetupStep(t) ==
    /\ pc[t] = "setup"
    /\ mutex = 0
    /\ NoReturnPending
    /\ pc' = [pc EXCEPT ![t] = "relock"]

Fairness ==
    \A t \in Threads :
        /\ WF_vars(GetFmt(t))
        /\ WF_pc(HandlerSetupStep(t))
        /\ WF_vars(Relock(t))
        /\ WF_vars(SStreamFinish(t))
        /\ WF_vars(SStreamClear(t))
        /\ WF_vars(Return(t))

SpecFair == Init /\ [][Next]_vars /\ Fairness

\* register tables: up to MaxTable entries, the terminator, and what may lie
\* behind the terminator in memory
TableEntries == {<<256, 1>>, <<256, 0>>, <<14350, 3>>, <<14351, 142>>}

RegTables ==
    {e \o << <<REG_NULL, 0>> >> \o x :
        e \in UNION {[1..n -> TableEntries] : n \in 0..MaxTable},
        x \in {<<>>, << <<24064, 128>> >>}}

\* ov9281_write_array is called with a table
WriteArray(t, list) ==
    /\ pc[t] = "idle"
    /\ t <= limit.threads
    /\ \E flt \in faults :
           /\ Commit(t, ov9281_write_array(World(t, flt, "none", FALSE), list))
           /\ op' = [op EXCEPT ![t] = [call |-> [name |-> "write_array",
                                                 list |-> list, flt |-> flt],
                                       pre |-> Pre]]
    /\ UNCHANGED <<calls, faults, limit, absorbed, dev>>

NextArray ==
    \/ \E t \in Threads, list \in RegTables : WriteArray(t, list)
    \/ \E t \in Threads : Return(t)

SpecArray == InitArray /\ [][NextArray]_vars

NextProbe == Probe \/ Remove \/ Next

SpecProbe == InitProbe /\ [][NextProbe]_vars

\* ================================================================= claims
\* What the register map of the specification prescribes, written without
\* reference to the driver's translation code.
ExpW(reg, len, val) == <<"w", reg, len, val, TRUE>>

ExpectedModeWrites ==
    [i \in 1..(Len(ov9281_1280x800_regs) - 1) |->
        ExpW(ov9281_1280x800_regs[i][1], 1, ov9281_1280x800_regs[i][2])]

ExpectedCtrlWrites(id, v) ==
    CASE id = "VBLANK" -> << ExpW(14350, 2, v + 800) >>
      [] id = "EXPOSURE" -> << ExpW(13568, 3, v * 16) >>
      [] id = "ANALOGUE_GAIN" -> << ExpW(13576, 1, (v \div 256) % 8),
                                    ExpW(13577, 1, v % 256) >>
      [] id = "TEST_PATTERN" -> << ExpW(24064, 1,
                                        IF v = 0 THEN 0 ELSE (v - 1) + 128) >>

ExpectedStreamOn == ExpW(256, 1, 1)

PowerOnSteps == << <<"p", "clk_set_rate">>, <<"p", "clk_enable">>,
                   <<"p", "reset_low">>, <<"p", "reg_enable">>,
                   <<"p", "reset_high">>, <<"p", "usleep_range", 500, 1000>>,
                   <<"p", "pwdn_high">>, <<"p", "usleep_range", 342, 684>> >>

Kind(s, k) == SelectSeq(s, LAMBDA e : e[1] = k)
Bus(s) == SelectSeq(s, LAMBDA e : e[1] \in {"c", "w"})
Returned(t, name) == pc[t] = "ret" /\ op[t].call.name = name

\* an s_stream(1) call made while streaming was false has returned 0
StartedStream(t) ==
    /\ Returned(t, "s_stream")
    /\ op[t].call.on # 0
    /\ ~op[t].pre.streaming
    /\ rv[t] = 0

\* the bus traffic of a replay of the values v (one per control, in order)
ExpectedReplay(v) ==
    << <<"c", "VBLANK", v[1]>> >> \o ExpectedCtrlWrites("VBLANK", v[1])
    \o << <<"c", "EXPOSURE", v[2]>> >> \o ExpectedCtrlWrites("EXPOSURE", v[2])
    \o << <<"c", "ANALOGUE_GAIN", v[3]>> >>
    \o ExpectedCtrlWrites("ANALOGUE_GAIN", v[3])
    \o << <<"c", "TEST_PATTERN", v[4]>> >>
    \o ExpectedCtrlWrites("TEST_PATTERN", v[4])

\* C1: a successful s_stream(1) issued while not streaming writes the mode
\* sequence in table order, then replays VBLANK, EXPOSURE, ANALOG_GAIN and
\* TEST_PATTERN, then writes 0x0100 <- 0x01; the power-on it may have
\* triggered is complete before the first write.
C1_StreamStartOrder ==
    \A t \in Threads : StartedStream(t) =>
        LET cs == Kind(tr[t], "c")
        IN /\ Len(cs) = 4
           /\ Bus(tr[t]) = ExpectedModeWrites
                           \o ExpectedReplay([i \in 1..4 |-> cs[i][3]])
                           \o << ExpectedStreamOn >>
           /\ \A i, j \in 1..Len(tr[t]) :
                  tr[t][i][1] = "p" /\ tr[t][j][1] = "w" => i < j
           /\ Kind(tr[t], "p") = IF op[t].pre.pm.status = "suspended"
                                 THEN PowerOnSteps ELSE <<>>

\* C2: of two s_stream(1) calls that overlap while streaming is false, at
\* most one takes a runtime-PM reference and writes to the sensor; the other
\* does no PM operation and no I2C write.
Starting(t) ==
    /\ op[t].call.name = "s_stream"
    /\ op[t].call.on # 0
    /\ ~op[t].pre.streaming
    /\ refs[t] > 0
    /\ Kind(tr[t], "w") # <<>>

C2_OneStarter == \A t, u \in Threads : Starting(t) /\ Starting(u) => t = u

\* C3: a control write that finds the device runtime-suspended and leaves
\* it so returns 0, issues no I2C transaction and leaves its value stored;
\* the next successful s_stream(1) writes that stored value to the
\* control's register exactly once, after the mode sequence and before
\* 0x0100 <- 0x01.
StoredBy(t) ==
    LET id == op[t].call.id
        c == op[t].pre.ctl[id]
    IN ctl[id].cur = IF id = "TEST_PATTERN" THEN op[t].call.val
                     ELSE Max(c.min, Min(c.max, op[t].call.val))

WritesTo(s, regset) == SelectSeq(s, LAMBDA e : e[1] = "w" /\ e[2] \in regset)

CtrlRegs(id) ==
    CASE id = "VBLANK" -> {14350}
      [] id = "EXPOSURE" -> {13568}
      [] id = "ANALOGUE_GAIN" -> {13576, 13577}
      [] id = "TEST_PATTERN" -> {24064}

\* what the call wrote after the mode sequence
AfterMode(s) ==
    LET ws == Kind(s, "w")
        n == Len(ov9281_1280x800_regs) - 1
    IN IF Len(ws) <= n THEN <<>> ELSE SubSeq(ws, n + 1, Len(ws))

C3_SuspendedWriteAbsorbed ==
    \A t \in Threads :
        /\ (Returned(t, "s_ctrl") /\ op[t].pre.pm.status = "suspended"
            /\ pm.status = "suspended") =>
              /\ rv[t] = 0
              /\ Kind(tr[t], "w") = <<>>
              /\ StoredBy(t)
        /\ StartedStream(t) =>
              \A id \in absorbed :
                  /\ WritesTo(AfterMode(tr[t]), CtrlRegs(id))
                     = ExpectedCtrlWrites(id, op[t].pre.ctl[id].cur)
                  /\ tr[t][Len(tr[t])] = ExpectedStreamOn

\* C4: a control write issued while the device is runtime-suspended neither
\* powers the sensor on nor queues a resume: when it returns the device is
\* still suspended, with the usage count it had and no request pending that
\* the call did not find.
C4_NoResumeFromCtrl ==
    \A t \in Threads :
        Returned(t, "s_ctrl") /\ op[t].pre.pm.status = "suspended" =>
            /\ pm.status = "suspended"
            /\ ~Powered(hw)
            /\ pm.request = op[t].pre.pm.request
            /\ pm.usage = op[t].pre.pm.usage

\* C5: on a bus that fails no transfer, once a control write and an
\* s_stream(1) have both returned and the sensor streams, every control
\* register holds the encoding of the value stored in the control framework.
RegBytes(reg, len) ==
    [i \in 1..len |-> regs[reg + i - 1]]

BytesOf(v, len) ==
    [i \in 1..len |-> (v \div (256 ^ (len - i))) % 256]

RegsCoherent ==
    /\ RegBytes(14350, 2) = BytesOf(ctl["VBLANK"].cur + 800, 2)
    /\ RegBytes(13568, 3) = BytesOf(ctl["EXPOSURE"].cur * 16, 3)
    /\ regs[13576] = (ctl["ANALOGUE_GAIN"].cur \div 256) % 8
    /\ regs[13577] = ctl["ANALOGUE_GAIN"].cur % 256
    /\ regs[24064] = IF ctl["TEST_PATTERN"].cur = 0 THEN 0
                     ELSE (ctl["TEST_PATTERN"].cur - 1) + 128

C5_CtrlVsStreamStart ==
    (streaming /\ \A t \in Threads : pc[t] \in {"idle", "ret"}) => RegsCoherent

\* the control changed while the s_stream(1) call was in progress
C5_Witness ==
    \E t \in Threads :
        /\ StartedStream(t)
        /\ \A u \in Threads \ {t} : pc[u] = "idle"
        /\ op[t].pre.ctl["VBLANK"].cur = 110
        /\ ctl["VBLANK"].cur = 4096

\* C6: s_power(on) with power_on already equal to on, and s_stream(on) with
\* streaming already equal to !!on, return 0 and change nothing: no driver
\* state, no runtime-PM reference, no power step, no I2C write.
Redundant(o, str, pwr) ==
    \/ o.name = "s_power" /\ (o.on # 0) = pwr
    \/ o.name = "s_stream" /\ (o.on # 0) = str

C6_Idempotent ==
    [][\A t \in Threads :
          (pc[t] = "idle" /\ pc'[t] # "idle"
           /\ Redundant(op'[t].call, streaming, power_on)) =>
              /\ pc'[t] = "ret"
              /\ rv'[t] = 0
              /\ tr'[t] = <<>>
              /\ refs'[t] = 0
              /\ UNCHANGED <<streaming, power_on, cur_mode, ctl, try_fmt, pm,
                             hw, regs>>
              /\ mutex' = 0]_vars

\* s_power(1) again on a powered handle
C6_Witness ==
    \E t \in Threads :
        /\ Returned(t, "s_power")
        /\ op[t].call.on = 1
        /\ op[t].pre.power_on
        /\ pm.usage = 1

\* C7: an s_stream(1) issued while not streaming fails exactly when the PM
\* get, a mode-sequence write, the control replay or the 0x0100 <- 0x01
\* write fails; it then returns that error, leaves streaming as it was, has
\* dropped the PM reference it took, has released the mutex, and has issued
\* no 0x0100 <- 0x01 write after the failing step.
StartAttempt(o) == o.call.name = "s_stream" /\ o.call.on # 0 /\ ~o.pre.streaming

PmGetFailed(o, s) ==
    \/ o.pre.pm.error
    \/ o.pre.pm.status = "suspended" /\ Kind(s, "p") # PowerOnSteps

ModeWriteFailed(s) ==
    \E i \in 1..Len(Kind(s, "w")) :
        i <= Len(ov9281_1280x800_regs) - 1 /\ ~Kind(s, "w")[i][5]

StreamOnFailed(s) ==
    Len(s) > 0 /\ s[Len(s)] = <<"w", 256, 1, 1, FALSE>>

C7_StartFailure ==
    [][\A t \in Threads :
          (pc[t] # "ret" /\ pc'[t] = "ret" /\ StartAttempt(op'[t])) =>
              LET replay_ret == IF pc[t] = "finish" THEN rv[t] ELSE 0
                  failed == \/ PmGetFailed(op'[t], tr'[t])
                            \/ ModeWriteFailed(tr'[t])
                            \/ replay_ret # 0
                            \/ StreamOnFailed(tr'[t])
              IN /\ failed <=> rv'[t] # 0
                 /\ rv'[t] <= 0
                 /\ replay_ret # 0 => rv'[t] = replay_ret
                 /\ rv'[t] # 0 =>
                       /\ streaming' = streaming
                       /\ refs'[t] = 0
                       /\ pm'.usage = pm.usage - refs[t]
                       /\ mutex' = 0
                       /\ \A i \in 1..Len(tr'[t]) :
                              (tr'[t][i][1] = "w" /\ tr'[t][i][2] = 256) =>
                                  i = Len(tr'[t]) /\ ~tr'[t][i][5]]_vars

\* the replay failed after the mode sequence had been written
C7_Witness ==
    \E t \in Threads :
        /\ Returned(t, "s_stream")
        /\ StartAttempt(op[t])
        /\ rv[t] = -EIO
        /\ Kind(tr[t], "c") # <<>>
        /\ ~StreamOnFailed(tr[t])

\* C8: s_stream(0) issued while streaming attempts 0x0100 <- 0x00, drops one
\* runtime-PM reference, clears streaming and returns 0, whether or not the
\* write completed.
C8_StreamStop ==
    \A t \in Threads :
        (Returned(t, "s_stream") /\ op[t].call.on = 0 /\ op[t].pre.streaming) =>
            /\ rv[t] = 0
            /\ ~streaming
            /\ refs[t] = -1
            /\ pm.usage = op[t].pre.pm.usage - 1
            /\ Len(Kind(tr[t], "w")) = 1
            /\ \E ok \in BOOLEAN : Kind(tr[t], "w")[1] = <<"w", 256, 1, 0, ok>>
            /\ mutex = 0

\* the stream-off write failed
C8_Witness ==
    \E t \in Threads :
        /\ Returned(t, "s_stream")
        /\ op[t].call.on = 0
        /\ op[t].pre.streaming
        /\ tr[t] = << <<"w", 256, 1, 0, FALSE>> >>

\* C9: the EXPOSURE control's maximum is cur_mode.height + VBLANK - 4 from
\* probe onward (906 initially), after VBLANK writes in any power state.
C9_VblankExposureCoupling ==
    ctl["EXPOSURE"].max
    = supported_modes[cur_mode].height + ctl["VBLANK"].cur - 4

\* C10: the stored EXPOSURE value lies in [4, VTS - 4], VTS being
\* cur_mode.height + the stored VBLANK.
C10_ExposureRange ==
    /\ 4 <= ctl["EXPOSURE"].cur
    /\ ctl["EXPOSURE"].cur
       <= supported_modes[cur_mode].height + ctl["VBLANK"].cur - 4

\* C11: every read or write of cur_mode, streaming or power_on made by an
\* entry point happens while the calling thread holds the mutex.
HandleFields == {"cur_mode", "streaming", "power_on"}

Count(s, e) == Len(SelectSeq(s, LAMBDA x : x = e))

\* the thread holds the mutex when it makes the i-th step of s
HeldAt(s, i) ==
    Count(SubSeq(s, 1, i - 1), "lock") > Count(SubSeq(s, 1, i - 1), "unlock")

C11_MutexSerialization ==
    \A t \in Threads : \A i \in 1..Len(sync[t]) :
        sync[t][i] \in HandleFields => HeldAt(sync[t], i)

\* C12: ov9281_probe reads 0x300B and then 0x300A, one byte each, after the
\* power-on sequence; it returns -ENODEV exactly when a read fails or the
\* two bytes do not make 0x9281, and then the sensor is powered off, the
\* control handler freed, the mutex destroyed, the subdevice not registered
\* and runtime PM not enabled.  A probe that returns 0 leaves the state the
\* entry points start from.
ProbeReturned == pc[1] = "ret" /\ op[1].call.name = "probe"

IdentityRead(rd) ==
    /\ Len(rd) = 2
    /\ rd[1][5] /\ rd[2][5]
    /\ rd[2][4] * 256 + rd[1][4] = 37505

IndexOfFirst(s, k) == CHOOSE i \in 1..Len(s) : s[i][1] = k /\ \A j \in 1..(i - 1) : s[j][1] # k

C12_ChipIdCheck ==
    /\ ProbeReturned =>
          LET rd == Kind(tr[1], "r")
          IN /\ rd # <<>> =>
                   /\ rd[1][2] = 12299 /\ rd[1][3] = 1
                   /\ Len(rd) = IF rd[1][5] THEN 2 ELSE 1
                   /\ Len(rd) = 2 => rd[2][2] = 12298 /\ rd[2][3] = 1
                   /\ SubSeq(Kind(tr[1], "p"), 1, 8) = PowerOnSteps
                   /\ SubSeq(Kind(SubSeq(tr[1], 1, IndexOfFirst(tr[1], "r")),
                                  "p"), 1, 8) = PowerOnSteps
                   /\ IdentityRead(rd) => rv[1] # -19
                   /\ ~IdentityRead(rd) =>
                          /\ rv[1] = -19
                          /\ ~hw.clk /\ ~hw.reg
                          /\ dev.handler = "freed"
                          /\ dev.mutex = "destroyed"
                          /\ ~dev.registered
                          /\ ~dev.pm_enabled
             /\ rv[1] = -19 => rd # <<>> /\ ~IdentityRead(rd)
             /\ rv[1] = 0 <=> dev.registered
    /\ (dev.registered /\ calls = 0 /\ \A t \in Threads : pc[t] = "idle") =>
          /\ ctl = ov9281_initialize_controls(1)
          /\ cur_mode = 1 /\ ~streaming /\ ~power_on /\ mutex = 0
          /\ pm = [usage |-> 0, status |-> "suspended", request |-> "none",
                   error |-> FALSE]
          /\ ~Powered(hw) /\ ~hw.clk /\ ~hw.reg
          /\ dev = Bound

\* the part on the bus answers 0x5649
C12_Witness ==
    /\ ProbeReturned
    /\ rv[1] = -19
    /\ Kind(tr[1], "r") = << <<"r", 12299, 1, 73, TRUE>>,
                             <<"r", 12298, 1, 86, TRUE>> >>
    /\ ~hw.clk /\ ~hw.reg

\* C13: a power-on that succeeds performs clock enable, reset low, regulator
\* enable, reset high, a 500-1000 us sleep, pwdn high and a wait of at least
\* 342 us, in this order, before it returns and so before the first I2C
\* transfer; power-off performs pwdn low, clock disable, reset low,
\* regulator disable in this order.
PowerSteps(t) ==
    SelectSeq(Kind(tr[t], "p"), LAMBDA e : e[2] # "clk_set_rate")

\* the call found the sensor off and got past its power-on
PoweredOnBy(t) ==
    /\ pc[t] # "idle"
    /\ op[t].call.name \in {"s_stream", "s_power", "probe"}
    /\ ~Powered(op[t].pre.hw)
    /\ \/ Kind(tr[t], "w") # <<>>
       \/ Kind(tr[t], "r") # <<>>
       \/ op[t].call.name = "s_power" /\ pc[t] = "ret" /\ rv[t] = 0
          /\ op[t].call.on # 0 /\ ~op[t].pre.power_on

IsPowerOn(s) ==
    /\ Len(s) = 7
    /\ s[1] = <<"p", "clk_enable">>
    /\ s[2] = <<"p", "reset_low">>
    /\ s[3] = <<"p", "reg_enable">>
    /\ s[4] = <<"p", "reset_high">>
    /\ s[5][2] = "usleep_range" /\ s[5][3] >= 500 /\ s[5][4] <= 1000
    /\ s[5][3] <= s[5][4]
    /\ s[6] = <<"p", "pwdn_high">>
    /\ s[7][2] = "usleep_range" /\ s[7][3] >= 342 /\ s[7][3] <= s[7][4]

IsPowerOff(s) ==
    s = << <<"p", "pwdn_low">>, <<"p", "clk_disable">>, <<"p", "reset_low">>,
           <<"p", "reg_disable">> >>

\* the events of s up to its first I2C transfer
BeforeTransfer(s) ==
    IF \E i \in 1..Len(s) : s[i][1] \in {"w", "r"}
    THEN SubSeq(s, 1, (CHOOSE i \in 1..Len(s) :
                          /\ s[i][1] \in {"w", "r"}
                          /\ \A j \in 1..(i - 1) : s[j][1] \notin {"w", "r"}) - 1)
    ELSE s

PowerOnAttempt(t) ==
    /\ pc[t] = "ret"
    /\ op[t].call.name \in {"s_stream", "s_power", "probe"}
    /\ ~Powered(op[t].pre.hw)
    /\ Kind(tr[t], "p") # <<>>

RateWarned(t) == \E i \in 1..Len(tr[t]) : tr[t][i] = <<"k", "xvclk rate">>

C14_PowerOnRollback ==
    \A t \in Threads : PowerOnAttempt(t) =>
        /\ Len(PowerSteps(t)) < 7 =>
              /\ rv[t] = -EIO
              /\ PowerSteps(t) \in
                    { <<>>, << <<"p", "clk_enable">>, <<"p", "reset_low">>,
                               <<"p", "clk_disable">> >> }
              /\ hw = [clk |-> FALSE, reg |-> FALSE, reset |-> 0, pwdn |-> 0]
              /\ Kind(tr[t], "w") = <<>> /\ Kind(tr[t], "r") = <<>>
        /\ RateWarned(t) => IsPowerOn(SubSeq(PowerSteps(t), 1, 7))

\* the regulators failed after the clock had been enabled
C14_Witness ==
    \E t \in Threads :
        /\ Returned(t, "s_power")
        /\ rv[t] = -EIO
        /\ PowerSteps(t) = << <<"p", "clk_enable">>, <<"p", "reset_low">>,
                              <<"p", "clk_disable">> >>

\* C15: a VBLANK value v handed to the driver while the device is resumed
\* leaves the EXPOSURE maximum at height + v - 4 and then issues exactly one
\* write to 0x380E, 16 bits wide, of v + 800; for every v of the control's
\* range that value lies in [0x038E, 0x7FFF] and is sent untruncated; while
\* the device is suspended no write is issued.
VblankEvents(t) ==
    SelectSeq(tr[t], LAMBDA e : e[1] = "c" /\ e[2] = "VBLANK")

VblankWrite(t) ==
    /\ pc[t] = "ret"
    /\ op[t].call.name \in {"s_ctrl", "set_fmt"}
    /\ VblankEvents(t) # <<>>

VtsValuesFit ==
    \A v \in (910 - 800)..(32767 - 800) :
        /\ LowBytes(v + supported_modes[1].height, OV9281_REG_VALUE_16BIT)
           = v + 800
        /\ v + 800 >= 910 /\ v + 800 <= 32767

C15_VblankToVts ==
    /\ VtsValuesFit
    /\ \A t \in Threads : VblankWrite(t) =>
          LET v == VblankEvents(t)[1][3]
              vts == WritesTo(tr[t], {14350})
          IN /\ Len(VblankEvents(t)) = 1
             /\ v >= 110 /\ v <= 31967
             /\ ctl["EXPOSURE"].max = 800 + v - 4
             /\ (op[t].pre.pm.status = "active" /\ pm.status = "active") =>
                   /\ Len(vts) = 1
                   /\ SubSeq(vts[1], 1, 4) = <<"w", 14350, 2, v + 800>>
                   /\ tr[t][Len(tr[t])] = vts[1]
             /\ (op[t].pre.pm.status = "suspended"
                 /\ pm.status = "suspended") => Kind(tr[t], "w") = <<>>

\* VBLANK = 0x1000 on a resumed device: 0x380E <- 0x1320
C15_Witness ==
    \E t \in Threads :
        /\ Returned(t, "s_ctrl")
        /\ op[t].call.id = "VBLANK"
        /\ op[t].pre.pm.status = "active"
        /\ tr[t] # <<>>
        /\ tr[t][Len(tr[t])] = <<"w", 14350, 2, 4896, TRUE>>
        /\ ctl["EXPOSURE"].max = 4892

\* C16: an exposure E handed to the driver while the device is resumed
\* issues exactly one write to 0x3500, three bytes wide, of E << 4; for
\* every E in 4 .. 0x7FFF - 4 the shifted value is below 2^24, so the three
\* bytes carry all of it.
ExposureValuesFit ==
    \A E \in OV9281_EXPOSURE_MIN..(OV9281_VTS_MAX - 4) :
        /\ LowBytes(ShiftL(E, 4), OV9281_REG_VALUE_24BIT) = E * 16
        /\ E * 16 < 16777216

\* the device is resumed at every point of the call where the driver is
\* handed a control value
ResumedCall(t) ==
    /\ pc[t] = "ret"
    /\ \/ op[t].call.name = "s_stream"
       \/ /\ op[t].call.name \in {"s_ctrl", "set_fmt"}
          /\ op[t].pre.pm.status = "active"
          /\ pm.status = "active"

C16_ExposureEncoding ==
    /\ ExposureValuesFit
    /\ \A t \in Threads : ResumedCall(t) =>
          LET ev == {i \in 1..Len(tr[t]) :
                        tr[t][i][1] = "c" /\ tr[t][i][2] = "EXPOSURE"}
              wr == {i \in 1..Len(tr[t]) :
                        /\ tr[t][i][1] = "w" /\ tr[t][i][2] = 13568
                        /\ tr[t][i][3] # 1}
          IN /\ \A i \in ev :
                   /\ tr[t][i][3] >= 4 /\ tr[t][i][3] <= 32763
                   /\ i < Len(tr[t])
                   /\ SubSeq(tr[t][i + 1], 1, 4)
                      = <<"w", 13568, 3, tr[t][i][3] * 16>>
             /\ wr = {i + 1 : i \in ev}

\* EXPOSURE = 4892 on a resumed device whose VBLANK is 4096
C16_Witness ==
    \E t \in Threads :
        /\ Returned(t, "s_ctrl")
        /\ op[t].pre.pm.status = "active"
        /\ pm.status = "active"
        /\ tr[t] = << <<"c", "EXPOSURE", 4892>>,
                      <<"w", 13568, 3, 78272, TRUE>> >>

\* C17: an analogue gain G in 0x10 .. 0xF8 handed to the driver while the
\* device is resumed issues two 8-bit writes in order, (G >> 8) & 7 to 0x3508
\* and then G & 0xFF to 0x3509; the second is issued whether or not the first
\* succeeded, and the control write returns an error when either failed.
GainSplit ==
    \A G \in OV9281_GAIN_MIN..OV9281_GAIN_MAX :
        /\ AndMask(ShiftR(G, OV9281_GAIN_H_SHIFT), OV9281_GAIN_H_MASK)
           = (G \div 256) % 8
        /\ AndMask(G, OV9281_GAIN_L_MASK) = G % 256

GainEvents(t) ==
    {i \in 1..Len(tr[t]) : tr[t][i][1] = "c" /\ tr[t][i][2] = "ANALOGUE_GAIN"}

C17_AnalogGainSplit ==
    /\ GainSplit
    /\ \A t \in Threads : ResumedCall(t) =>
          /\ \A i \in GainEvents(t) :
                LET G == tr[t][i][3]
                IN /\ G >= 16 /\ G <= 248
                   /\ i + 2 <= Len(tr[t])
                   /\ SubSeq(tr[t][i + 1], 1, 4)
                      = <<"w", 13576, 1, (G \div 256) % 8>>
                   /\ SubSeq(tr[t][i + 2], 1, 4) = <<"w", 13577, 1, G % 256>>
          /\ (op[t].call.name = "s_ctrl" /\ GainEvents(t) # {}) =>
                /\ Len(tr[t]) = 3
                /\ rv[t] # 0 <=> (~tr[t][2][5] \/ ~tr[t][3][5])
                /\ rv[t] <= 0

\* the first of the two transfers failed; the second was sent and succeeded
C17_Witness ==
    \E t \in Threads :
        /\ Returned(t, "s_ctrl")
        /\ op[t].pre.pm.status = "active"
        /\ pm.status = "active"
        /\ tr[t] = << <<"c", "ANALOGUE_GAIN", 248>>,
                      <<"w", 13576, 1, 0, FALSE>>,
                      <<"w", 13577, 1, 248, TRUE>> >>
        /\ rv[t] = -EIO

\* C18: for every requested size and either 'which', set_fmt returns 0 with
\* the format rewritten to 1280x800, Y10, progressive, and cur_mode stays the
\* only mode; a TRY set_fmt changes the try format and nothing else, an
\* ACTIVE set_fmt leaves HBLANK at hts_def - width and VBLANK at its default
\* vts_def - height with range [vts_def - height, 0x7FFF - height].
FmtSizes == {0, 1, 640, 1279, 1280, 1281, 1920, 65535}

BestFitIsOnlyMode ==
    \A width \in FmtSizes, height \in FmtSizes :
        ov9281_find_best_fit([width |-> width, height |-> height]) = 1

SetFmtStep(t) ==
    pc[t] = "idle" /\ pc'[t] # "idle" /\ op'[t].call.name = "set_fmt"

SetFmtReturn(t) ==
    /\ pc'[t] = "ret"
    /\ rv'[t] = 0
    /\ out'[t] = [width |-> 1280, height |-> 800, code |-> "Y10_1X10",
                  field |-> "NONE", colorspace |-> "SRGB"]
    /\ cur_mode = 1
    /\ cur_mode' = 1
    /\ mutex' = 0

SetFmtTry(t) ==
    /\ try_fmt' = out'[t]
    /\ tr'[t] = <<>>
    /\ UNCHANGED <<cur_mode, ctl, streaming, power_on, pm, hw, regs>>

SetFmtActive(t) ==
    /\ try_fmt' = try_fmt
    /\ ctl'["HBLANK"].cur = 1456 - 1280
    /\ ctl'["HBLANK"].min = 1456 - 1280
    /\ ctl'["HBLANK"].max = 1456 - 1280
    /\ ctl'["VBLANK"].cur = 910 - 800
    /\ ctl'["VBLANK"].def = 910 - 800
    /\ ctl'["VBLANK"].min = 910 - 800
    /\ ctl'["VBLANK"].max = 32767 - 800

C18_FormatNegotiation ==
    [][\A t \in Threads : SetFmtStep(t) =>
          /\ BestFitIsOnlyMode
          /\ SetFmtReturn(t)
          /\ op'[t].call.which = "TRY" => SetFmtTry(t)
          /\ op'[t].call.which = "ACTIVE" => SetFmtActive(t)]_vars

\* C19: under fair scheduling every call of every interleaving returns;
\* s_stream(1) does not hold the mutex while the control replay acquires
\* it; __ov9281_start_stream hands the mutex back held on each of its paths
\* (mode-write failure, replay failure, success), so the unlock of s_stream
\* releases a held mutex; every entry point unlocks once for each lock.
LockOps(t) == SelectSeq(sync[t], LAMBDA e : e \in {"lock", "unlock"})

\* lock and unlock alternate, starting with lock
Alternates(q) ==
    \A i \in 1..Len(q) : q[i] = IF i % 2 = 1 THEN "lock" ELSE "unlock"

StartStreamEntered(t) ==
    /\ Returned(t, "s_stream")
    /\ \E i \in 1..Len(tr[t]) : tr[t][i][1] = "w"

ReplayEntered(t) == \E i \in 1..Len(tr[t]) : tr[t][i][1] = "c"

LockBalance ==
    \A t \in Threads :
        /\ Alternates(LockOps(t))
        /\ mutex = t <=> (pc[t] \notin {"idle", "ret"}
                          /\ Len(LockOps(t)) % 2 = 1)
        /\ pc[t] \in {"setup", "relock", "getfmt"} => mutex # t
        /\ pc[t] \in {"finish", "stopped"} => mutex = t
        /\ pc[t] = "ret" => Len(LockOps(t)) % 2 = 0
        /\ (StartStreamEntered(t) /\ op[t].call.on # 0) =>
              Len(LockOps(t)) = IF ReplayEntered(t) THEN 6 ELSE 2

C19_NoDeadlock ==
    /\ []LockBalance
    /\ \A t \in Threads : (pc[t] # "idle") ~> (pc[t] = "idle")

\* an s_stream(1) whose control replay failed has returned, after the other
\* thread's call ran in the window in which the mutex was released
C19_Witness ==
    \E t \in Threads :
        /\ StartStreamEntered(t)
        /\ ReplayEntered(t)
        /\ rv[t] # 0
        /\ LockOps(t) = <<"lock", "unlock", "lock", "unlock", "lock", "unlock">>
        /\ mutex = 0

\* C20: in every quiescent state (no driver call in progress) the runtime-PM
\* usage count equals (power_on ? 1 : 0) + (streaming ? 1 : 0) and is never
\* negative, so with both flags false the count is 0 and the device can idle
\* to powered-off.
Quiescent == \A t \in Threads : pc[t] = "idle"

HeldByFlags == (IF power_on THEN 1 ELSE 0) + (IF streaming THEN 1 ELSE 0)

C20_PmAccounting ==
    /\ pm.usage >= 0
    /\ Quiescent => pm.usage = HeldByFlags

\* C21: once probe has succeeded, every I2C transaction the driver issues
\* (mode sequence, control writes, stream-on and stream-off writes) leaves
\* while the sensor is powered, that is after a completed power-on sequence
\* and before the next power-off, and while a runtime-PM reference is held.
C21_NoI2cWhileUnpowered ==
    \A t \in Threads :
        op[t].call.name # "probe" =>
            /\ bus[t].cold = 0
            /\ bus[t].noref = 0

\* a control write has gone out to a sensor that the PM workqueue had
\* powered off and on again since the driver was bound
C21_Witness ==
    \E t \in Threads :
        /\ Returned(t, "s_ctrl")
        /\ bus[t].io > 0
        /\ ~op[t].pre.streaming
        /\ ~op[t].pre.power_on
        /\ op[t].pre.pm.usage > 0

\* C22: in every reachable state, under any interleaving of s_stream,
\* s_power and control writes, streaming implies that the driver holds at
\* least one runtime-PM reference and that the sensor is powered on; so
\* (unpowered, streaming) is unreachable and s_power(0) while streaming does
\* not power the sensor off.
StreamingPowered == streaming => (pm.usage >= 1 /\ Powered(hw))

C22_StreamingImpliesPowered == StreamingPowered

\* C22 as amended: the same, in every state in which no s_stream(0) stands
\* between its pm_runtime_put and its assignment of streaming, a stretch in
\* which the stopping caller holds the mutex.
Stopping == \E t \in Threads : pc[t] = "stopped"

C22_StreamingImpliesPoweredAmended ==
    /\ ~Stopping => StreamingPowered
    /\ Stopping => mutex # 0

\* s_power(0) has dropped the power reference of a streaming sensor
C22_Witness ==
    \E t \in Threads :
        /\ Returned(t, "s_power")
        /\ op[t].call.on = 0
        /\ op[t].pre.power_on
        /\ ~power_on
        /\ streaming
        /\ pm.usage = 1
        /\ Powered(hw)

\* C23: over the whole lifecycle (probe's own power-on, runtime-PM resume
\* and suspend, probe's error unwinding, remove's forced power-off) a
\* power-on sequence never starts on a powered sensor nor a power-off on an
\* unpowered one, the clock and the regulators are never enabled while
\* enabled nor disabled while disabled; a successful probe leaves the device
\* under runtime PM and powered off, and so does every failed probe and
\* remove.
SensorOff == ~hw.clk /\ ~hw.reg /\ hw.reset = 0 /\ hw.pwdn = 0

C23_PowerAlternation ==
    /\ misuse = {}
    /\ \A t \in Threads : Returned(t, "probe") =>
          /\ SensorOff
          /\ rv[t] = 0 =>
                /\ dev.pm_enabled
                /\ pm.status = "suspended"
                /\ Kind(tr[t], "p")[1] = <<"p", "clk_set_rate">>
                /\ tr[t][Len(tr[t])] = <<"p", "reg_disable">>
    /\ dev.state = "removed" =>
          /\ SensorOff
          /\ pm.status = "suspended"
          /\ ~dev.pm_enabled

\* remove found the sensor streaming and has powered it off
C23_Witness ==
    \E t \in Threads :
        /\ Returned(t, "remove")
        /\ op[t].pre.streaming
        /\ Powered(op[t].pre.hw)
        /\ Kind(tr[t], "p") = << <<"p", "pwdn_low">>, <<"p", "clk_disable">>,
                                 <<"p", "reset_low">>, <<"p", "reg_disable">> >>
        /\ SensorOff

\* C24: for a register table terminated by address 0xFFFF, write-array
\* issues one 8-bit write per entry in table order and never writes the
\* terminator or what lies behind it; if the k-th write fails it issues no
\* write for a later entry and returns that write's error; if none fails it
\* returns 0 after writing every entry.
Terminator(list) ==
    CHOOSE i \in 1..Len(list) :
        /\ list[i][1] = 65535
        /\ \A j \in 1..(i - 1) : list[j][1] # 65535

C24_WriteArray ==
    \A t \in Threads : Returned(t, "write_array") =>
        LET list == op[t].call.list
            n == Terminator(list) - 1
            failing == {k \in 1..n : k \in op[t].call.flt}
            last == IF failing = {} THEN n
                    ELSE CHOOSE k \in failing : \A j \in failing : k <= j
        IN /\ Len(tr[t]) = last
           /\ \A i \in 1..last :
                 tr[t][i] = <<"w", list[i][1], 1, list[i][2],
                             ~(i = last /\ failing # {})>>
           /\ rv[t] = IF failing = {} THEN 0 ELSE -5

\* the second of two writes failed: both were issued, nothing after them
C24_Witness ==
    \E t \in Threads :
        /\ Returned(t, "write_array")
        /\ Len(op[t].call.list) = 4
        /\ op[t].call.list[3][1] = 65535
        /\ Len(tr[t]) = 2
        /\ tr[t][1][5]
        /\ ~tr[t][2][5]
        /\ rv[t] = -5
====
